---------------------------- MODULE Spec2Model ----------------------------
(***************************************************************************)
(* A model of the documentation crawler / extractor / chunker of the       *)
(* faktor-doc repository:                                                  *)
(*   src/ai/fetchapp/crawler.py            crawl, scope, extract_paragraphs*)
(*   src/ai/build_faktor_corpus.py         normalize_url, crawl_and_build, *)
(*                                         chunk_markdown                  *)
(*   src/ai/gpt/rag_chunk.py, pembed.py    word-window chunkers            *)
(*   src/ai/embedprpair/build_embeddings_json.py  character-window chunker *)
(*                                                                         *)
(* Text is a sequence of symbols.  A symbol is one character ("/", ":",    *)
(* "?", "#", " ", "\n") or an atom standing for a run of ordinary          *)
(* characters that no operation of the code looks inside ("http", "h",     *)
(* "g", "index.html", ...).                                                *)
(***************************************************************************)
EXTENDS Integers, Sequences, FiniteSets, TLC

VARIABLES
  \* crawler.py has_url_prefix / _normalize_root_prefix on one (candidate, root)
  sc_pc, sc_cand, sc_root, sc_prefix, sc_ok,
  \* build_faktor_corpus.py normalize_url applied twice to one URL
  nu_pc, nu_url, nu_base, nu_once, nu_twice,
  \* one run of crawler.py crawl() or build_faktor_corpus.py crawl_and_build()
  c_prog,        \* which of the two loops runs
  c_start,       \* the start URL as queued
  c_prefix,      \* root_prefix (crawl) / allowed_prefix (crawl_and_build)
  c_max,         \* max_pages
  c_queue,       \* queue / q
  c_visited,     \* visited / seen
  c_pages,       \* the URLs yielded (crawl) / appended to pages (crawl_and_build)
  c_cur,         \* the URL whose fetch is in flight, None outside a fetch
  c_pc,          \* "loop", "fetch" or "done"
  c_dispatched,  \* history: the URLs handed to session.get / fetch, in order
  c_web,         \* the site: for each page, the href lists a fetch of it may return
  c_disallow,    \* the robots policy: the URLs can_fetch refuses
  c_iter,        \* history: how many times the loop body was entered (popleft)
  c_delay,       \* delay of crawl(); crawl_and_build has no such argument
  c_trace,       \* history: the fetches entered ("get") and the sleeps, in order
  c_failed,      \* history: the URLs whose fetch failed, in order
  c_enqueued,    \* history: the URLs put on the queue, in order
  \* one call of rag_chunk.py chunk_text_by_words() or pembed.py chunk_text()
  w_prog,        \* which of the two runs
  w_text,        \* text
  w_size,        \* max_words / chunk_size
  w_overlap,     \* overlap_words / overlap
  w_words,       \* words
  w_i,           \* i / start
  w_chunks,      \* chunks, its first MaxChunks entries
  w_pc,          \* "call", "test" (the while condition), "body" or "done"
  \* one call of build_embeddings_json.py chunk_text()
  k_text,        \* text
  k_size,        \* chunk_size
  k_given,       \* overlap, as passed
  k_overlap,     \* overlap, as the loop uses it
  k_start,       \* start
  k_chunks,      \* chunks
  k_pc,          \* "call", "test", "body", "filter" (the return statement) or "done"
  \* one call of build_faktor_corpus.py chunk_markdown()
  m_enc,         \* whether tiktoken is installed (ENCODING is not None)
  m_text,        \* text
  m_max,         \* max_tokens
  m_ovl,         \* overlap_tokens
  m_paras,       \* paras
  m_idx,         \* how many paragraphs the for loop has taken
  m_buf,         \* buf
  m_buf_tokens,  \* buf_tokens
  m_chunks,      \* chunks
  m_cur,         \* history: the paragraphs appended to buf since the last flush
  m_parts,       \* history: for each chunk, the paragraphs it was flushed with
  m_pc,          \* "call", "loop" or "done"
  \* one call of crawler.py extract_paragraphs()
  d_doc,         \* the parsed page below content_root: its nodes in document order
  d_headings,    \* headings
  d_h,           \* how many headings the for loop has taken
  d_seen,        \* seen_blocks
  d_records,     \* records
  d_pc,          \* "call", "loop" or "done"
  \* one call of crawler.py choose_best_encoding()
  e_bytes,       \* html_bytes: a list of bytes and of runs of ASCII bytes
  e_header,      \* content_type_hdr
  e_resp,        \* resp_encoding
  e_apparent,    \* apparent_encoding
  e_result,      \* the encoding tag returned
  e_step,        \* history: the return statement that produced it
  e_pc,          \* "call" or "done"
  \* one call of build_faktor_corpus.py fetch(), or one session.get of
  \* crawler.py under the Retry policy of build_http_session()
  f_prog,        \* which of the two runs
  f_retries,     \* retries (fetch) / Retry.total (session.get)
  f_log,         \* history: the outcome of each request attempt, in order
  f_sleeps,      \* history: how many times the call slept
  f_last_exc,    \* last_exc: whether an attempt raised
  f_pc,          \* "call", "loop", "returned" or "raised"
  \* crawler.py load_robots() and the robots test of crawl()
  r_answer,      \* what the request for /robots.txt meets
  r_rp,          \* rp, the RobotFileParser
  r_loads,       \* history: how many times load_robots was called
  r_tests,       \* history: the URLs tested and what the test returned
  r_pc,          \* "call" or "loop"
  \* the records made of a document's chunks
  x_prog,        \* chunk_markdown, build_records or create_chunks_from_pages
  x_docs,        \* for each document, its chunks
  x_idx,         \* how many documents have been taken
  x_records,     \* records / all_chunks
  x_cid,         \* cid
  x_pc,          \* "loop" or "done"
  \* the decode stage of one attempt of build_faktor_corpus.py fetch()
  g_bytes,       \* resp.content
  g_resp,        \* resp.encoding
  g_detected,    \* what detect_encoding(resp.content) returns
  g_chardet,     \* what chardet.detect(resp.content) returns, if it is there
  g_encoding,    \* encoding
  g_text,        \* text
  g_pc,          \* "call", "decode", "chain", "returned" or "raised"
  \* one call of extract_title(), of build_faktor_corpus.py or of crawler.py
  t_prog,        \* which of the two functions
  t_h1,          \* the text of the first h1 of the page, None without h1
  t_title,       \* the text of the title element, None without one
  t_fallback,    \* fallback (build_faktor_corpus.py only)
  t_result,      \* the title returned
  t_pc,          \* "call" or "done"
  \* one call of crawler.py combine_by_char_limit()
  b_records,     \* records
  b_max,         \* max_chars
  b_i,           \* how many records the for loop has taken
  b_buffer,      \* buffer
  b_buf_len,     \* buf_len
  b_combined,    \* combined
  b_pc           \* "call", "loop" or "done"

scopeVars == << sc_pc, sc_cand, sc_root, sc_prefix, sc_ok >>

normVars == << nu_pc, nu_url, nu_base, nu_once, nu_twice >>

crawlVars == << c_prog, c_start, c_prefix, c_max, c_queue, c_visited, c_pages,
                c_cur, c_pc, c_dispatched, c_web, c_disallow, c_iter,
                c_delay, c_trace, c_failed, c_enqueued >>

wordVars == << w_prog, w_text, w_size, w_overlap, w_words, w_i, w_chunks, w_pc >>

charVars == << k_text, k_size, k_given, k_overlap, k_start, k_chunks, k_pc >>

mdVars == << m_enc, m_text, m_max, m_ovl, m_paras, m_idx, m_buf, m_buf_tokens,
            m_chunks, m_cur, m_parts, m_pc >>

domVars == << d_doc, d_headings, d_h, d_seen, d_records, d_pc >>

encVars == << e_bytes, e_header, e_resp, e_apparent, e_result, e_step, e_pc >>

fetchVars == << f_prog, f_retries, f_log, f_sleeps, f_last_exc, f_pc >>

robotsVars == << r_answer, r_rp, r_loads, r_tests, r_pc >>

recVars == << x_prog, x_docs, x_idx, x_records, x_cid, x_pc >>

decVars == << g_bytes, g_resp, g_detected, g_chardet, g_encoding, g_text, g_pc >>

titleVars == << t_prog, t_h1, t_title, t_fallback, t_result, t_pc >>

combVars == << b_records, b_max, b_i, b_buffer, b_buf_len, b_combined, b_pc >>

vars == << scopeVars, normVars, crawlVars, wordVars, charVars, mdVars, domVars,
           encVars, fetchVars, robotsVars, recVars, decVars, titleVars, combVars >>

\* what the steps of one part of the program leave alone
exceptScope ==
  << normVars, crawlVars, wordVars, charVars, mdVars, domVars,
     encVars, fetchVars, robotsVars, recVars,
     decVars, titleVars, combVars >>

exceptNorm ==
  << scopeVars, crawlVars, wordVars, charVars, mdVars, domVars,
     encVars, fetchVars, robotsVars, recVars,
     decVars, titleVars, combVars >>

exceptCrawl ==
  << scopeVars, normVars, wordVars, charVars, mdVars, domVars,
     encVars, fetchVars, robotsVars, recVars,
     decVars, titleVars, combVars >>

exceptWord ==
  << scopeVars, normVars, crawlVars, charVars, mdVars, domVars,
     encVars, fetchVars, robotsVars, recVars,
     decVars, titleVars, combVars >>

exceptMd ==
  << scopeVars, normVars, crawlVars, wordVars, charVars, domVars,
     encVars, fetchVars, robotsVars, recVars,
     decVars, titleVars, combVars >>

exceptDom ==
  << scopeVars, normVars, crawlVars, wordVars, charVars, mdVars,
     encVars, fetchVars, robotsVars, recVars,
     decVars, titleVars, combVars >>

exceptChar ==
  << scopeVars, normVars, crawlVars, wordVars, mdVars, domVars,
     encVars, fetchVars, robotsVars, recVars,
     decVars, titleVars, combVars >>

exceptEnc ==
  << scopeVars, normVars, crawlVars, wordVars, charVars, mdVars,
     domVars, fetchVars, robotsVars, recVars,
     decVars, titleVars, combVars >>

exceptFetch ==
  << scopeVars, normVars, crawlVars, wordVars, charVars, mdVars,
     domVars, encVars, robotsVars, recVars,
     decVars, titleVars, combVars >>

exceptRobots ==
  << scopeVars, normVars, crawlVars, wordVars, charVars, mdVars,
     domVars, encVars, fetchVars, recVars,
     decVars, titleVars, combVars >>

exceptRec ==
  << scopeVars, normVars, crawlVars, wordVars, charVars, mdVars,
     domVars, encVars, fetchVars, robotsVars,
     decVars, titleVars, combVars >>

exceptDec ==
  << scopeVars, normVars, crawlVars, wordVars, charVars, mdVars,
     domVars, encVars, fetchVars, robotsVars,
     recVars, titleVars, combVars >>

exceptTitle ==
  << scopeVars, normVars, crawlVars, wordVars, charVars, mdVars,
     domVars, encVars, fetchVars, robotsVars,
     recVars, decVars, combVars >>

exceptComb ==
  << scopeVars, normVars, crawlVars, wordVars, charVars, mdVars,
     domVars, encVars, fetchVars, robotsVars,
     recVars, decVars, titleVars >>

(***************************************************************************)
(* Text helpers (Python str methods used by the code)                      *)
(***************************************************************************)
Min(a, b) == IF a <= b THEN a ELSE b

Max(a, b) == IF a >= b THEN a ELSE b

\* s.startswith(p)
StartsWith(s, p) == Len(p) <= Len(s) /\ SubSeq(s, 1, Len(p)) = p

\* s.endswith(p)
EndsWith(s, p) == Len(p) <= Len(s) /\ SubSeq(s, Len(s) - Len(p) + 1, Len(s)) = p

\* s[n:] for n >= 0
DropFirst(s, n) == SubSeq(s, n + 1, Len(s))

\* the first index in s of a symbol of cs, 0 when there is none
IndexOfAny(s, cs) ==
  IF \E i \in 1..Len(s) : s[i] \in cs
    THEN CHOOSE i \in 1..Len(s) : s[i] \in cs /\ \A j \in 1..(i - 1) : s[j] \notin cs
    ELSE 0

\* s.find(c) + 1 for a one-symbol c
IndexOf(s, c) == IndexOfAny(s, { c })

\* s[:i-1] for an index i >= 1, all of s for i = 0 ("not found")
BeforeIndex(s, i) == IF i = 0 THEN s ELSE SubSeq(s, 1, i - 1)

\* s[i:] for an index i >= 1, nothing for i = 0 ("not found")
AfterIndex(s, i) == IF i = 0 THEN << >> ELSE DropFirst(s, i)

\* s[i-1:] for an index i >= 1, nothing for i = 0 ("not found")
FromIndex(s, i) == IF i = 0 THEN << >> ELSE DropFirst(s, i - 1)

\* s.split(c): the segments between the occurrences of c (always at least one)
RECURSIVE SplitOn(_, _)
SplitOn(s, c) ==
  IF IndexOf(s, c) = 0 THEN << s >>
  ELSE << BeforeIndex(s, IndexOf(s, c)) >> \o SplitOn(AfterIndex(s, IndexOf(s, c)), c)

\* sep.join(segs)
RECURSIVE JoinWith(_, _)
JoinWith(segs, sep) ==
  IF Len(segs) = 0 THEN << >>
  ELSE IF Len(segs) = 1 THEN segs[1]
  ELSE segs[1] \o sep \o JoinWith(Tail(segs), sep)

\* s.replace(pat, rep): every non-overlapping occurrence, left to right
RECURSIVE ReplaceAll(_, _, _)
ReplaceAll(s, pat, rep) ==
  IF Len(s) < Len(pat) \/ Len(pat) = 0 THEN s
  ELSE IF StartsWith(s, pat) THEN rep \o ReplaceAll(DropFirst(s, Len(pat)), pat, rep)
  ELSE << Head(s) >> \o ReplaceAll(Tail(s), pat, rep)

\* s without its elements that are in drop
RECURSIVE FilterSeq(_, _)
FilterSeq(s, drop) ==
  IF Len(s) = 0 THEN << >>
  ELSE IF Head(s) \in drop THEN FilterSeq(Tail(s), drop)
  ELSE << Head(s) >> \o FilterSeq(Tail(s), drop)

\* the whitespace characters
Blank == { " ", "\n" }

\* s.lstrip()
RECURSIVE LStrip(_)
LStrip(s) == IF s # << >> /\ Head(s) \in Blank THEN LStrip(Tail(s)) ELSE s

\* s.rstrip()
RECURSIVE RStrip(_)
RStrip(s) ==
  IF s # << >> /\ s[Len(s)] \in Blank THEN RStrip(SubSeq(s, 1, Len(s) - 1)) ELSE s

\* s.strip()
Strip(s) == RStrip(LStrip(s))

\* all sequences over S of length at most n
SeqsUpTo(S, n) == UNION { [1..k -> S] : k \in 0..n }

(***************************************************************************)
(* urllib.parse, as the code uses it                                       *)
(***************************************************************************)
\* the scheme atoms; urllib's uses_netloc / uses_relative hold http and https
SchemeAtoms == { "http", "https", "mailto" }

UsesNetloc == { "http", "https" }

HasScheme(url) == Len(url) >= 2 /\ url[2] = ":" /\ url[1] \in SchemeAtoms

UrlParts(scheme, netloc, path, query, fragment) ==
  [ scheme |-> scheme, netloc |-> netloc, path |-> path,
    query |-> query, fragment |-> fragment ]

\* the fragment is split off at the first "#", then the query at the first "?"
ParsePath(scheme, netloc, rest) ==
  UrlParts(scheme, netloc,
           BeforeIndex(BeforeIndex(rest, IndexOf(rest, "#")),
                       IndexOf(BeforeIndex(rest, IndexOf(rest, "#")), "?")),
           AfterIndex(BeforeIndex(rest, IndexOf(rest, "#")),
                      IndexOf(BeforeIndex(rest, IndexOf(rest, "#")), "?")),
           AfterIndex(rest, IndexOf(rest, "#")))

\* after "//" the netloc runs up to the next "/", "?" or "#"
ParseNetloc(scheme, rest) ==
  IF StartsWith(rest, << "/", "/" >>)
    THEN ParsePath(scheme,
                   BeforeIndex(DropFirst(rest, 2),
                               IndexOfAny(DropFirst(rest, 2), { "/", "?", "#" })),
                   FromIndex(DropFirst(rest, 2),
                             IndexOfAny(DropFirst(rest, 2), { "/", "?", "#" })))
    ELSE ParsePath(scheme, << >>, rest)

\* urlparse(url)
UrlParse(url) ==
  IF HasScheme(url) THEN ParseNetloc(url[1], DropFirst(url, 2))
  ELSE ParseNetloc("", url)

\* urlunparse(parts) / ParseResult.geturl()
UrlUnparse(p) ==
  (IF p.scheme # "" THEN << p.scheme, ":" >> ELSE << >>)
  \o (IF p.netloc # << >>
         \/ (p.scheme \in UsesNetloc /\ ~StartsWith(p.path, << "/", "/" >>))
        THEN << "/", "/" >> \o p.netloc
             \o (IF p.path # << >> /\ Head(p.path) # "/" THEN << "/" >> ELSE << >>)
        ELSE << >>)
  \o p.path
  \o (IF p.query # << >> THEN << "?" >> \o p.query ELSE << >>)
  \o (IF p.fragment # << >> THEN << "#" >> \o p.fragment ELSE << >>)

\* urldefrag(url)[0]
UrlDefrag(url) ==
  IF IndexOf(url, "#") # 0
    THEN UrlUnparse([ UrlParse(url) EXCEPT !.fragment = << >> ])
    ELSE url

\* base_parts of urljoin: the base path's segments without the last one
BaseParts(segs) ==
  IF segs[Len(segs)] # << >> THEN SubSeq(segs, 1, Len(segs) - 1) ELSE segs

\* segments[1:-1] = filter(None, segments[1:-1])
FilterMiddle(segs) ==
  IF Len(segs) <= 2 THEN segs
  ELSE << segs[1] >> \o FilterSeq(SubSeq(segs, 2, Len(segs) - 1), { << >> })
       \o << segs[Len(segs)] >>

\* the segments of the joined path
JoinSegments(bpath, path) ==
  IF Head(path) = "/" THEN SplitOn(path, "/")
  ELSE FilterMiddle(BaseParts(SplitOn(bpath, "/")) \o SplitOn(path, "/"))

OrSlash(path) == IF path = << >> THEN << "/" >> ELSE path

\* urljoin once both arguments are parsed (u with the base's scheme as default)
JoinParsed(b, u, url) ==
  IF u.scheme # b.scheme \/ u.scheme \notin UsesNetloc THEN url
  ELSE IF u.netloc # << >> THEN UrlUnparse(u)
  ELSE IF u.path = << >>
    THEN UrlUnparse([ u EXCEPT !.netloc = b.netloc, !.path = b.path,
                               !.query = IF u.query = << >> THEN b.query ELSE u.query ])
  ELSE UrlUnparse([ u EXCEPT !.netloc = b.netloc,
                             !.path = OrSlash(JoinWith(JoinSegments(b.path, u.path),
                                                       << "/" >>)) ])

DefaultScheme(u, scheme) == IF u.scheme = "" THEN [ u EXCEPT !.scheme = scheme ] ELSE u

\* urljoin(base, url); the model's texts hold no "." or ".." segment
UrlJoin(base, url) ==
  IF base = << >> THEN url
  ELSE IF url = << >> THEN base
  ELSE JoinParsed(UrlParse(base),
                  DefaultScheme(UrlParse(url), UrlParse(base).scheme), url)

(***************************************************************************)
(* crawler.py: link normalisation and scope                                *)
(***************************************************************************)
\* Python's None, as a text no URL equals
None == << "<None>" >>

HttpOrNone(absolute) ==
  IF UrlParse(absolute).scheme \notin { "http", "https" } THEN None ELSE absolute

\* crawler.py normalize_url(base_url, href)
NormalizeLink(base_url, href) ==
  IF href = << >> THEN None
  ELSE IF StartsWith(href, << "mailto", ":" >>) THEN None
  ELSE HttpOrNone(UrlDefrag(UrlJoin(base_url, href)))

\* path = parsed.path if parsed.path else "/"; "/" appended unless it ends in one
RootPathKeepAsIs(path) == OrSlash(path)

RootPath(path) ==
  IF ~EndsWith(OrSlash(path), << "/" >>) THEN OrSlash(path) \o << "/" >>
  ELSE OrSlash(path)

RootPrefixOf(parsed) ==
  << parsed.scheme, ":", "/", "/" >> \o parsed.netloc \o RootPath(parsed.path)

\* crawler.py _normalize_root_prefix(root)
NormalizeRootPrefix(root) == RootPrefixOf(UrlParse(root))

PrefixMatch(cu, rp) ==
  IF << cu.scheme, cu.netloc >> # << rp.scheme, rp.netloc >> THEN FALSE
  ELSE StartsWith(OrSlash(cu.path), OrSlash(rp.path))

\* crawler.py has_url_prefix(candidate, root_prefix)
HasUrlPrefix(candidate, root_prefix) ==
  PrefixMatch(UrlParse(candidate), UrlParse(root_prefix))

(***************************************************************************)
(* build_faktor_corpus.py: canonical URLs                                  *)
(***************************************************************************)
IndexSuffix == << "/", "index.html" >>

\* url.replace("/index.html", "/")
CollapseIndex(url) == ReplaceAll(url, IndexSuffix, << "/" >>)

NormalizeParsed(parsed) ==
  IF EndsWith(parsed.path, IndexSuffix)
    THEN CollapseIndex(UrlUnparse([ parsed EXCEPT !.query = << >> ]))
    ELSE UrlUnparse([ parsed EXCEPT !.query = << >> ])

\* build_faktor_corpus.py normalize_url(url, base); base = << >> is "no base"
NormalizeUrl(url, base) ==
  NormalizeParsed(UrlParse(UrlDefrag(IF base # << >> THEN UrlJoin(base, url) ELSE url)))

\* the asset extensions is_doc_url skips, each an atom ending a URL
AssetExts == { ".pdf", ".png", ".jpg", ".jpeg", ".gif", ".svg", ".zip",
               ".mp4", ".webm", ".css", ".js", ".ico" }

\* build_faktor_corpus.py is_doc_url(url, allowed_prefix)
IsDocUrl(url, allowed_prefix) ==
  IF ~StartsWith(url, allowed_prefix) THEN FALSE
  ELSE ~(url # << >> /\ url[Len(url)] \in AssetExts)

(***************************************************************************)
(* Scope check of one candidate against one root                           *)
(* (crawler.py:326 root_prefix = _normalize_root_prefix(start_url),        *)
(*  crawler.py:332 has_url_prefix(url, root_prefix))                       *)
(***************************************************************************)
\* the longest path, in symbols, of a generated URL
MaxPathLen == 4

ScopePathSyms == { "/", "g", "-" }

\* absolute paths (or none) over the scope alphabet
ScopePaths == { p \in SeqsUpTo(ScopePathSyms, MaxPathLen) : p = << >> \/ p[1] = "/" }

\* a URL written out from its parts: scheme://host path [?query]
FormatUrl(parts) ==
  << parts.scheme, ":", "/", "/", parts.host >> \o parts.path
    \o (IF parts.query # << >> THEN << "?" >> \o parts.query ELSE << >>)

Candidates ==
  { [ scheme |-> o[1], host |-> o[2], path |-> p, query |-> << >> ] :
      o \in { << "http", "h" >>, << "https", "h" >>, << "http", "o" >> }, p \in ScopePaths }

Roots ==
  { [ scheme |-> "http", host |-> "h", path |-> p, query |-> q ] :
      p \in ScopePaths, q \in { << >>, << "q" >> } }

ScopeIdle ==
  /\ sc_pc = "idle" /\ sc_cand = << >> /\ sc_root = << >>
  /\ sc_prefix = << >> /\ sc_ok = FALSE

ScopeInit ==
  /\ sc_pc = "start"
  /\ sc_cand \in Candidates
  /\ sc_root \in Roots
  /\ sc_prefix = << >>
  /\ sc_ok = FALSE

\* root_prefix = _normalize_root_prefix(start_url)
ScopeRoot ==
  /\ sc_pc = "start"
  /\ sc_prefix' = NormalizeRootPrefix(FormatUrl(sc_root))
  /\ sc_pc' = "prefixed"
  /\ UNCHANGED << sc_cand, sc_root, sc_ok >>
  /\ UNCHANGED exceptScope

\* has_url_prefix(url, root_prefix)
ScopeCheck ==
  /\ sc_pc = "prefixed"
  /\ sc_ok' = HasUrlPrefix(FormatUrl(sc_cand), sc_prefix)
  /\ sc_pc' = "checked"
  /\ UNCHANGED << sc_cand, sc_root, sc_prefix >>
  /\ UNCHANGED exceptScope

(***************************************************************************)
(* Canonicalisation of one URL, twice                                      *)
(* (build_faktor_corpus.py:303-304, 326 normalize_url)                     *)
(***************************************************************************)
NormPathSyms == { "/", "a", "index.html" }

NormUrls ==
  { pre \o p \o q \o f :
      pre \in { << >>, << "http", ":", "/", "/", "h" >> },
      p \in SeqsUpTo(NormPathSyms, MaxPathLen),
      q \in { << >>, << "?", "q" >> },
      f \in { << >>, << "#", "f" >> } }

\* << >> is "no base"
NormBases ==
  { << >>,
    << "http", ":", "/", "/", "h", "/", "a", "/" >>,
    << "http", ":", "/", "/", "h", "/", "a", "/", "index.html" >> }

NormIdle ==
  /\ nu_pc = "idle" /\ nu_url = << >> /\ nu_base = << >>
  /\ nu_once = << >> /\ nu_twice = << >>

NormInit ==
  /\ nu_pc = "start"
  /\ nu_url \in NormUrls
  /\ nu_base \in NormBases
  /\ nu_once = << >>
  /\ nu_twice = << >>

\* u = normalize_url(url, base)
NormOnce ==
  /\ nu_pc = "start"
  /\ nu_once' = NormalizeUrl(nu_url, nu_base)
  /\ nu_pc' = "once"
  /\ UNCHANGED << nu_url, nu_base, nu_twice >>
  /\ UNCHANGED exceptNorm

\* normalize_url(u), with the same base or with none
NormTwice ==
  /\ nu_pc = "once"
  /\ \E b \in { << >>, nu_base } : nu_twice' = NormalizeUrl(nu_once, b)
  /\ nu_pc' = "twice"
  /\ UNCHANGED << nu_url, nu_base, nu_once >>
  /\ UNCHANGED exceptNorm

(***************************************************************************)
(* The crawl loops: crawler.py crawl() and                                 *)
(* build_faktor_corpus.py crawl_and_build()                                *)
(***************************************************************************)
\* the largest max_pages tried
MaxPagesBound == 4

\* the most anchors on one page
MaxLinks == 2

UrlG == << "http", ":", "/", "/", "h", "/", "g", "/" >>

UrlGX == << "http", ":", "/", "/", "h", "/", "g", "/", "x" >>

UrlGY == << "http", ":", "/", "/", "h", "/", "g", "/", "y" >>

\* the pages of the site that lie under /g/
PageUrls == { UrlG, UrlGX, UrlGY }

\* the hrefs a page may hold: a relative name, a rooted path with a fragment,
\* the absolute URL of /g/, a sibling directory whose name starts like /g,
\* and a mail link
Hrefs ==
  { << "x" >>,
    << "/", "g", "/", "y", "#", "f" >>,
    UrlG,
    << "/", "g", "-", "/", "x" >>,
    << "mailto", ":", "m" >> }

LinkLists == SeqsUpTo(Hrefs, MaxLinks)

\* the href lists of a fixed site: as above, without the mail link
SiteLinkLists == SeqsUpTo(Hrefs \ { << "mailto", ":", "m" >> }, MaxLinks)

\* start_url of crawl(): the directory, or the same without its final slash
CrawlStarts == { UrlG, << "http", ":", "/", "/", "h", "/", "g" >> }

\* (base_url, start_url) of crawl_and_build()
BuildStarts ==
  { << UrlG, UrlG \o << "index.html" >> >>,
    << UrlG, << "x" >> >> }

\* robots policies: everything allowed, or /g/x refused
RobotsPolicies == { {}, { UrlGX } }

\* the delay argument of crawl(), in units of time: none, or some
Delays == { 0, 1 }

\* crawler.py is_allowed_by_robots(robots, url, user_agent)
IsAllowedByRobots(disallow, url) == url \notin disallow

CrawlIdle ==
  /\ c_prog = "none" /\ c_start = << >> /\ c_prefix = << >> /\ c_max = 0
  /\ c_queue = << >> /\ c_visited = {} /\ c_pages = << >> /\ c_cur = None
  /\ c_pc = "idle" /\ c_dispatched = << >> /\ c_web = << >> /\ c_disallow = {}
  /\ c_iter = 0 /\ c_delay = 0 /\ c_trace = << >>
  /\ c_failed = << >> /\ c_enqueued = << >>

\* the state on entry to the while loop, the environment left open
CrawlEntry(ceilings, delays) ==
  /\ \/ /\ c_prog = "crawl"
        /\ c_start \in CrawlStarts
        /\ c_prefix = NormalizeRootPrefix(c_start)
        /\ c_delay \in delays
     \/ /\ c_prog = "crawl_and_build"
        /\ c_delay = 0
        /\ \E bs \in BuildStarts :
             /\ c_prefix = NormalizeUrl(bs[1], << >>)
             /\ c_start = NormalizeUrl(bs[2], NormalizeUrl(bs[1], << >>))
  /\ c_max \in ceilings
  /\ c_queue = << c_start >>
  /\ c_visited = {}
  /\ c_pages = << >>
  /\ c_cur = None
  /\ c_pc = "loop"
  /\ c_dispatched = << >>
  /\ c_iter = 0
  /\ c_trace = << >>
  /\ c_failed = << >>
  /\ c_enqueued = << c_start >>

\* any site, any robots policy
CrawlInit ==
  /\ CrawlEntry(0..MaxPagesBound, Delays)
  /\ c_web = [ u \in PageUrls |-> LinkLists ]
  /\ c_disallow \in RobotsPolicies

\* a fixed site whose robots policy allows everything, crawled with a
\* max_pages above the number of its pages
CrawlInitSite ==
  /\ CrawlEntry({ MaxPagesBound }, { 1 })
  /\ c_web \in [ PageUrls -> { { l } : l \in SiteLinkLists } ]
  /\ c_disallow = {}

\* the href lists a fetch of url may return; a URL outside the site's pages
\* is a page without anchors
Served(url) == IF url \in DOMAIN c_web THEN c_web[url] ELSE { << >> }

\* "while queue:", the page ceiling forgotten
LoopCondNoCeiling == c_queue # << >>

\* while queue and len(visited) < max_pages  (crawler.py:328)
\* while q and len(pages) < max_pages         (build_faktor_corpus.py:312)
LoopCond ==
  /\ c_queue # << >>
  /\ IF c_prog = "crawl" THEN Cardinality(c_visited) < c_max
                         ELSE Len(c_pages) < c_max

\* every dequeued URL is fetched
AdmittedAnyUrl(url) == TRUE

\* the admission tests of crawl() on a dequeued URL (crawler.py:330-335)
Admitted(url) ==
  /\ url \notin c_visited
  /\ HasUrlPrefix(url, c_prefix)
  /\ IsAllowedByRobots(c_disallow, url)

\* one anchor of a fetched page, as crawl() treats it (crawler.py:354-360):
\* the URL to append to the queue, or None
CrawlLink(norm, visited, root_prefix) ==
  IF norm = None THEN None
  ELSE IF ~HasUrlPrefix(norm, root_prefix) THEN None
  ELSE IF norm \notin visited THEN norm
  ELSE None

\* soup.find("a") for soup.find_all("a"): only the first anchor is followed
CrawlLinksFirstOnly(url, hrefs, visited, root_prefix) ==
  IF hrefs = << >> THEN << >>
  ELSE FilterSeq(<< CrawlLink(NormalizeLink(url, Head(hrefs)), visited, root_prefix) >>,
                 { None })

\* the links of a fetched page that crawl() appends to the queue
\* (crawler.py:353-360)
RECURSIVE CrawlLinks(_, _, _, _)
CrawlLinks(url, hrefs, visited, root_prefix) ==
  IF hrefs = << >> THEN << >>
  ELSE FilterSeq(<< CrawlLink(NormalizeLink(url, Head(hrefs)), visited, root_prefix) >>,
                 { None })
       \o CrawlLinks(url, Tail(hrefs), visited, root_prefix)

\* one anchor of a fetched page, as crawl_and_build() treats it
\* (build_faktor_corpus.py:326-328)
BuildLink(u, seen, allowed_prefix) ==
  IF IsDocUrl(u, allowed_prefix) /\ u \notin seen THEN u ELSE None

\* the links of a fetched page that crawl_and_build() appends to q
\* (build_faktor_corpus.py:325-328)
RECURSIVE BuildLinks(_, _, _, _)
BuildLinks(url, hrefs, seen, allowed_prefix) ==
  IF hrefs = << >> THEN << >>
  ELSE FilterSeq(<< BuildLink(NormalizeUrl(Head(hrefs), url), seen, allowed_prefix) >>,
                 { None })
       \o BuildLinks(url, Tail(hrefs), seen, allowed_prefix)

\* queue.pop() for queue.popleft(): the last URL of the queue is taken
Pop(queue) == << queue[Len(queue)], SubSeq(queue, 1, Len(queue) - 1) >>

\* queue.popleft() (crawler.py:329), q.popleft() (build_faktor_corpus.py:313):
\* the URL taken, and the queue that is left
PopLeft(queue) == << Head(queue), Tail(queue) >>

\* queue.append(norm) (crawler.py:360), q.append(u) (build_faktor_corpus.py:328),
\* for each link of the page in turn
Enqueue(queue, links) == queue \o links

\* crawler.py:329-331  url = queue.popleft(); if url in visited: continue
CrawlSkipVisited ==
  /\ c_prog = "crawl" /\ c_pc = "loop" /\ LoopCond
  /\ PopLeft(c_queue)[1] \in c_visited
  /\ c_queue' = PopLeft(c_queue)[2]
  /\ c_iter' = c_iter + 1
  /\ UNCHANGED << c_prog, c_start, c_prefix, c_max, c_visited, c_pages, c_cur,
                  c_pc, c_dispatched, c_web, c_disallow >>
  /\ UNCHANGED << c_delay, c_trace, c_failed, c_enqueued >>
  /\ UNCHANGED exceptCrawl

\* crawler.py:332-333  if not has_url_prefix(url, root_prefix): continue
CrawlSkipOutOfScope ==
  /\ c_prog = "crawl" /\ c_pc = "loop" /\ LoopCond
  /\ PopLeft(c_queue)[1] \notin c_visited
  /\ ~HasUrlPrefix(PopLeft(c_queue)[1], c_prefix)
  /\ c_queue' = PopLeft(c_queue)[2]
  /\ c_iter' = c_iter + 1
  /\ UNCHANGED << c_prog, c_start, c_prefix, c_max, c_visited, c_pages, c_cur,
                  c_pc, c_dispatched, c_web, c_disallow >>
  /\ UNCHANGED << c_delay, c_trace, c_failed, c_enqueued >>
  /\ UNCHANGED exceptCrawl

\* crawler.py:334-335  if not is_allowed_by_robots(...): continue
CrawlSkipRobots ==
  /\ c_prog = "crawl" /\ c_pc = "loop" /\ LoopCond
  /\ PopLeft(c_queue)[1] \notin c_visited
  /\ HasUrlPrefix(PopLeft(c_queue)[1], c_prefix)
  /\ ~IsAllowedByRobots(c_disallow, PopLeft(c_queue)[1])
  /\ c_queue' = PopLeft(c_queue)[2]
  /\ c_iter' = c_iter + 1
  /\ UNCHANGED << c_prog, c_start, c_prefix, c_max, c_visited, c_pages, c_cur,
                  c_pc, c_dispatched, c_web, c_disallow >>
  /\ UNCHANGED << c_delay, c_trace, c_failed, c_enqueued >>
  /\ UNCHANGED exceptCrawl

\* crawler.py:336-337  resp = session.get(url, timeout=20) is entered
CrawlDispatch ==
  /\ c_prog = "crawl" /\ c_pc = "loop" /\ LoopCond
  /\ Admitted(PopLeft(c_queue)[1])
  /\ c_cur' = PopLeft(c_queue)[1]
  /\ c_queue' = PopLeft(c_queue)[2]
  /\ c_iter' = c_iter + 1
  /\ c_dispatched' = Append(c_dispatched, PopLeft(c_queue)[1])
  /\ c_pc' = "fetch"
  /\ UNCHANGED << c_prog, c_start, c_prefix, c_max, c_visited, c_pages, c_web,
                  c_disallow >>
  /\ c_trace' = Append(c_trace, "get")
  /\ UNCHANGED << c_delay, c_failed, c_enqueued >>
  /\ UNCHANGED exceptCrawl

\* crawler.py:338-341  the fetch raises, or answers with a status >= 400 or
\* with a content type other than text/html: continue
CrawlFetchFail ==
  /\ c_prog = "crawl" /\ c_pc = "fetch"
  /\ \E outcome \in { "exception", "status>=400", "not-html" } :
       /\ c_cur' = None
       /\ c_pc' = "loop"
  /\ c_failed' = Append(c_failed, c_cur)
  /\ UNCHANGED << c_prog, c_start, c_prefix, c_max, c_queue, c_visited, c_pages,
                  c_dispatched, c_web, c_disallow >>
  /\ UNCHANGED << c_delay, c_trace, c_enqueued >>
  /\ UNCHANGED << c_iter, exceptCrawl >>

\* crawler.py:343-365  an HTML page came back: visited.add(url); yield; the
\* links are discovered and queued; if delay > 0: time.sleep(delay)
CrawlFetchOk ==
  /\ c_prog = "crawl" /\ c_pc = "fetch"
  /\ \E hrefs \in Served(c_cur) :
       /\ c_visited' = c_visited \cup { c_cur }
       /\ c_pages' = Append(c_pages, c_cur)
       /\ LET links == CrawlLinks(c_cur, hrefs, c_visited \cup { c_cur }, c_prefix)
          IN  /\ c_queue' = Enqueue(c_queue, links)
              /\ c_enqueued' = c_enqueued \o links
  /\ c_cur' = None
  /\ c_pc' = "loop"
  /\ UNCHANGED << c_prog, c_start, c_prefix, c_max, c_dispatched, c_web, c_disallow >>
  /\ c_trace' = IF c_delay > 0 THEN Append(c_trace, "sleep") ELSE c_trace
  /\ UNCHANGED << c_delay, c_failed >>
  /\ UNCHANGED << c_iter, exceptCrawl >>

\* build_faktor_corpus.py:313-315  url = q.popleft(); if url in seen: continue
BuildSkipSeen ==
  /\ c_prog = "crawl_and_build" /\ c_pc = "loop" /\ LoopCond
  /\ PopLeft(c_queue)[1] \in c_visited
  /\ c_queue' = PopLeft(c_queue)[2]
  /\ c_iter' = c_iter + 1
  /\ UNCHANGED << c_prog, c_start, c_prefix, c_max, c_visited, c_pages, c_cur,
                  c_pc, c_dispatched, c_web, c_disallow >>
  /\ UNCHANGED << c_delay, c_trace, c_failed, c_enqueued >>
  /\ UNCHANGED exceptCrawl

\* build_faktor_corpus.py:316-318  seen.add(url); fetch(url, session) is entered
BuildDispatch ==
  /\ c_prog = "crawl_and_build" /\ c_pc = "loop" /\ LoopCond
  /\ PopLeft(c_queue)[1] \notin c_visited
  /\ c_visited' = c_visited \cup { PopLeft(c_queue)[1] }
  /\ c_cur' = PopLeft(c_queue)[1]
  /\ c_queue' = PopLeft(c_queue)[2]
  /\ c_iter' = c_iter + 1
  /\ c_dispatched' = Append(c_dispatched, PopLeft(c_queue)[1])
  /\ c_pc' = "fetch"
  /\ UNCHANGED << c_prog, c_start, c_prefix, c_max, c_pages, c_web, c_disallow >>
  /\ c_trace' = Append(c_trace, "get")
  /\ UNCHANGED << c_delay, c_failed, c_enqueued >>
  /\ UNCHANGED exceptCrawl

\* build_faktor_corpus.py:319-320  fetch raised after its retries, each of
\* which ended in time.sleep(0.7) (line 136): continue
BuildFetchFail ==
  /\ c_prog = "crawl_and_build" /\ c_pc = "fetch"
  /\ c_cur' = None
  /\ c_pc' = "loop"
  /\ c_failed' = Append(c_failed, c_cur)
  /\ UNCHANGED << c_prog, c_start, c_prefix, c_max, c_queue, c_visited, c_pages,
                  c_dispatched, c_web, c_disallow >>
  /\ c_trace' = Append(c_trace, "sleep")
  /\ UNCHANGED << c_delay, c_enqueued >>
  /\ UNCHANGED << c_iter, exceptCrawl >>

\* build_faktor_corpus.py:323-353  the page came back: its links are queued,
\* title and markdown are extracted, the page is appended; time.sleep(0.2)
BuildFetchOk ==
  /\ c_prog = "crawl_and_build" /\ c_pc = "fetch"
  /\ \E hrefs \in Served(c_cur) :
       LET links == BuildLinks(c_cur, hrefs, c_visited, c_prefix)
       IN  /\ c_queue' = Enqueue(c_queue, links)
           /\ c_enqueued' = c_enqueued \o links
  /\ c_pages' = Append(c_pages, c_cur)
  /\ c_cur' = None
  /\ c_pc' = "loop"
  /\ UNCHANGED << c_prog, c_start, c_prefix, c_max, c_visited, c_dispatched,
                  c_web, c_disallow >>
  /\ c_trace' = Append(c_trace, "sleep")
  /\ UNCHANGED << c_delay, c_failed >>
  /\ UNCHANGED << c_iter, exceptCrawl >>

\* build_faktor_corpus.py:323-342  the page came back and its links are
\* queued, but extract_title / html_to_markdown raised: continue
BuildExtractFail ==
  /\ c_prog = "crawl_and_build" /\ c_pc = "fetch"
  /\ \E hrefs \in Served(c_cur) :
       LET links == BuildLinks(c_cur, hrefs, c_visited, c_prefix)
       IN  /\ c_queue' = Enqueue(c_queue, links)
           /\ c_enqueued' = c_enqueued \o links
  /\ c_cur' = None
  /\ c_pc' = "loop"
  /\ UNCHANGED << c_prog, c_start, c_prefix, c_max, c_visited, c_pages,
                  c_dispatched, c_web, c_disallow >>
  /\ UNCHANGED << c_delay, c_trace, c_failed >>
  /\ UNCHANGED << c_iter, exceptCrawl >>

\* the while condition is false: the loop is left
CrawlExit ==
  /\ c_pc = "loop" /\ ~LoopCond
  /\ c_pc' = "done"
  /\ UNCHANGED << c_prog, c_start, c_prefix, c_max, c_queue, c_visited, c_pages,
                  c_cur, c_dispatched, c_web, c_disallow >>
  /\ UNCHANGED << c_delay, c_trace, c_failed, c_enqueued >>
  /\ UNCHANGED << c_iter, exceptCrawl >>

(***************************************************************************)
(* The word-window chunkers: rag_chunk.py chunk_text_by_words() and        *)
(* pembed.py chunk_text()                                                  *)
(***************************************************************************)
\* the longest text, in characters
MaxTextLen == 4

\* the largest window size tried
MaxSize == 2

\* how many entries of a chunk list are recorded; a loop that advances by at
\* least one word per round appends at most one chunk per word
MaxChunks == MaxTextLen + 1

\* an index of a Python slice brought into 0..n
SliceIndex(k, n) == IF k < 0 THEN Max(k + n, 0) ELSE Min(k, n)

\* s[lo:hi] of Python, indices counted from 0
PySlice(s, lo, hi) ==
  SubSeq(s, SliceIndex(lo, Len(s)) + 1, SliceIndex(hi, Len(s)))

\* re.findall(r"\S+", text) and text.split(): the runs of non-blank characters
RECURSIVE SplitWords(_)
SplitWords(text) ==
  IF LStrip(text) = << >> THEN << >>
  ELSE << BeforeIndex(LStrip(text), IndexOfAny(LStrip(text), Blank)) >>
         \o SplitWords(AfterIndex(LStrip(text), IndexOfAny(LStrip(text), Blank)))

\* chunks.append(c), the list recorded up to MaxChunks entries
AppendChunk(chunks, c) ==
  IF Len(chunks) < MaxChunks THEN Append(chunks, c) ELSE chunks

WordTexts == SeqsUpTo({ "a", " ", "\n" }, MaxTextLen)

WordIdle ==
  /\ w_prog = "none" /\ w_text = << >> /\ w_size = 0 /\ w_overlap = 0
  /\ w_words = << >> /\ w_i = 0 /\ w_chunks = << >> /\ w_pc = "idle"

\* a call with any text, any window size and any overlap up to that size
WordInit ==
  /\ w_prog \in { "chunk_text_by_words", "chunk_text" }
  /\ w_text \in WordTexts
  /\ w_size \in 0..MaxSize
  /\ w_overlap \in 0..w_size
  /\ w_words = << >>
  /\ w_i = 0
  /\ w_chunks = << >>
  /\ w_pc = "call"

\* rag_chunk.py:165-168, pembed.py:75-78  words = ...; chunks = []; i = 0
WordSplit ==
  /\ w_pc = "call"
  /\ w_words' = SplitWords(w_text)
  /\ w_i' = 0
  /\ w_chunks' = << >>
  /\ w_pc' = "test"
  /\ UNCHANGED << w_prog, w_text, w_size, w_overlap >>
  /\ UNCHANGED exceptWord

\* rag_chunk.py:169 while i < n      pembed.py:79 while start < len(words)
WordTest ==
  /\ w_pc = "test"
  /\ w_pc' = IF w_i < Len(w_words) THEN "body" ELSE "done"
  /\ UNCHANGED << w_prog, w_text, w_size, w_overlap, w_words, w_i, w_chunks >>
  /\ UNCHANGED exceptWord

\* rag_chunk.py:170-176  end = min(i + max_words, n); the chunk is appended;
\* break at the end of the words, else i = end - overlap_words
RagChunkBody ==
  /\ w_prog = "chunk_text_by_words" /\ w_pc = "body"
  /\ w_chunks' = AppendChunk(w_chunks,
         JoinWith(PySlice(w_words, w_i, Min(w_i + w_size, Len(w_words))), << " " >>))
  /\ IF Min(w_i + w_size, Len(w_words)) = Len(w_words)
       THEN w_pc' = "done" /\ w_i' = w_i
       ELSE w_pc' = "test" /\ w_i' = Min(w_i + w_size, Len(w_words)) - w_overlap
  /\ UNCHANGED << w_prog, w_text, w_size, w_overlap, w_words >>
  /\ UNCHANGED exceptWord

\* pembed.py:80-83  end = start + chunk_size; the chunk is appended;
\* start += (chunk_size - overlap)
PembedChunkBody ==
  /\ w_prog = "chunk_text" /\ w_pc = "body"
  /\ w_chunks' = AppendChunk(w_chunks,
         JoinWith(PySlice(w_words, w_i, w_i + w_size), << " " >>))
  /\ w_i' = w_i + (w_size - w_overlap)
  /\ w_pc' = "test"
  /\ UNCHANGED << w_prog, w_text, w_size, w_overlap, w_words >>
  /\ UNCHANGED exceptWord

(***************************************************************************)
(* The character-window chunker: build_embeddings_json.py chunk_text()     *)
(***************************************************************************)
\* how far past the window a paragraph break is looked for
\* (build_embeddings_json.py:200)
LookAhead == 200

\* the longest text given to chunk_text, in characters
MaxCharLen == 6

\* the largest chunk_size tried
MaxChunkSize == 4

\* text.find("\n\n", lo, hi): the first index, counted from 0, of a paragraph
\* break lying within text[lo:hi], or -1
FindBreak(text, lo, hi) ==
  IF \E j \in lo..(hi - 2) : text[j + 1] = "\n" /\ text[j + 2] = "\n"
    THEN CHOOSE j \in lo..(hi - 2) :
           /\ text[j + 1] = "\n" /\ text[j + 2] = "\n"
           /\ \A i \in lo..(j - 1) : ~(text[i + 1] = "\n" /\ text[i + 2] = "\n")
    ELSE -1

\* if overlap >= chunk_size: overlap = max(0, chunk_size // 4)
\* (build_embeddings_json.py:190-191), the correction left out
OverlapAsGiven(chunk_size, overlap) == overlap

\* if overlap >= chunk_size: overlap = max(0, chunk_size // 4)
EffectiveOverlap(chunk_size, overlap) ==
  IF overlap >= chunk_size THEN Max(0, chunk_size \div 4) ELSE overlap

\* end = min(n, start + chunk_size), moved behind the next paragraph break
\* when one starts within LookAhead characters (build_embeddings_json.py:196-203)
WindowEndAt(text, stop) ==
  IF stop < Len(text) /\ FindBreak(text, stop, Min(Len(text), stop + LookAhead)) # -1
    THEN FindBreak(text, stop, Min(Len(text), stop + LookAhead)) + 2
    ELSE stop

WindowEnd(text, start, chunk_size) ==
  WindowEndAt(text, Min(Len(text), start + chunk_size))

CharTexts == SeqsUpTo({ "a", "\n" }, MaxCharLen)

CharIdle ==
  /\ k_text = << >> /\ k_size = 0 /\ k_given = 0 /\ k_overlap = 0
  /\ k_start = 0 /\ k_chunks = << >> /\ k_pc = "idle"

\* a call with any text, any chunk_size and any overlap
CharInit ==
  /\ k_text \in CharTexts
  /\ k_size \in 0..MaxChunkSize
  /\ k_given \in 0..(MaxChunkSize + 1)
  /\ k_overlap = k_given
  /\ k_start = 0
  /\ k_chunks = << >>
  /\ k_pc = "call"

\* build_embeddings_json.py:186-194  the early returns, the overlap
\* correction, chunks = [], start = 0
CharEntry ==
  /\ k_pc = "call"
  /\ IF k_text = << >>
       THEN k_chunks' = << >> /\ k_pc' = "done" /\ k_overlap' = k_overlap
       ELSE IF k_size <= 0
         THEN k_chunks' = << k_text >> /\ k_pc' = "done" /\ k_overlap' = k_overlap
         ELSE /\ k_overlap' = EffectiveOverlap(k_size, k_given)
              /\ k_chunks' = << >>
              /\ k_pc' = "test"
  /\ k_start' = 0
  /\ UNCHANGED << k_text, k_size, k_given >>
  /\ UNCHANGED exceptChar

\* build_embeddings_json.py:195  while start < n
CharTest ==
  /\ k_pc = "test"
  /\ k_pc' = IF k_start < Len(k_text) THEN "body" ELSE "filter"
  /\ UNCHANGED << k_text, k_size, k_given, k_overlap, k_start, k_chunks >>
  /\ UNCHANGED exceptChar

\* build_embeddings_json.py:196-207  the window is cut, stripped and
\* appended; break at the end of the text, else start = max(end - overlap, 0)
CharBody ==
  /\ k_pc = "body"
  /\ k_chunks' = Append(k_chunks,
         Strip(PySlice(k_text, k_start, WindowEnd(k_text, k_start, k_size))))
  /\ IF WindowEnd(k_text, k_start, k_size) >= Len(k_text)
       THEN k_pc' = "filter" /\ k_start' = k_start
       ELSE /\ k_pc' = "test"
            /\ k_start' = Max(WindowEnd(k_text, k_start, k_size) - k_overlap, 0)
  /\ UNCHANGED << k_text, k_size, k_given, k_overlap >>
  /\ UNCHANGED exceptChar

\* build_embeddings_json.py:208-209  return [c for c in chunks if c]
CharReturn ==
  /\ k_pc = "filter"
  /\ k_chunks' = FilterSeq(k_chunks, { << >> })
  /\ k_pc' = "done"
  /\ UNCHANGED << k_text, k_size, k_given, k_overlap, k_start >>
  /\ UNCHANGED exceptChar

(***************************************************************************)
(* The paragraph chunker: build_faktor_corpus.py chunk_markdown()          *)
(***************************************************************************)
\* the most paragraphs a text is made of
MaxParas == 3

\* the largest max_tokens tried
MaxTokens == 3

\* the largest overlap_tokens tried
MaxOverlap == 2

\* how many characters the fallback counts as one token
\* (build_faktor_corpus.py:246)
CharsPerToken == 4

ParaBreak == << "\n", "\n" >>

\* whether text[i..j] is a match of \n\s*\n
IsBreak(text, i, j) ==
  /\ i < j /\ text[i] = "\n" /\ text[j] = "\n"
  /\ \A k \in i..j : text[k] \in Blank

\* where the leftmost match of \n\s*\n starts, 0 when there is none
BreakStart(text) ==
  IF \E i, j \in 1..Len(text) : IsBreak(text, i, j)
    THEN CHOOSE i \in 1..Len(text) :
           /\ \E j \in 1..Len(text) : IsBreak(text, i, j)
           /\ \A h \in 1..(i - 1) : \A j \in 1..Len(text) : ~IsBreak(text, h, j)
    ELSE 0

\* where the match starting at i ends: \s* is greedy
BreakEnd(text, i) ==
  CHOOSE j \in 1..Len(text) :
    /\ IsBreak(text, i, j)
    /\ \A k \in (j + 1)..Len(text) : ~IsBreak(text, i, k)

\* re.split(r"\n\s*\n", text)
RECURSIVE SplitParas(_)
SplitParas(text) ==
  IF BreakStart(text) = 0 THEN << text >>
  ELSE << SubSeq(text, 1, BreakStart(text) - 1) >>
         \o SplitParas(DropFirst(text, BreakEnd(text, BreakStart(text))))

\* ENCODING.encode(text) of a tokenizer whose tokens are the single characters
Encode(text) == [ i \in 1..Len(text) |-> << "tok", text[i] >> ]

\* ENCODING.decode(tok)
Decode(tok) == [ i \in 1..Len(tok) |-> tok[i][2] ]

\* build_faktor_corpus.py tokenize_len(text)
TokenizeLen(enc, text) ==
  IF enc THEN Len(Encode(text)) ELSE Max(1, Len(text) \div CharsPerToken)

\* "\n\n".join(buf).strip()  (build_faktor_corpus.py:260)
ChunkText(buf) == Strip(JoinWith(buf, ParaBreak))

\* flush() makes the chunk of the last entry of buf alone
FlushedLastOnly(buf, chunks) ==
  IF buf = << >> THEN chunks ELSE Append(chunks, Strip(buf[Len(buf)]))

\* flush(): the chunks after it
Flushed(buf, chunks) ==
  IF buf = << >> THEN chunks ELSE Append(chunks, ChunkText(buf))

\* ENCODING.decode(tok[-overlap_tokens:]) if tok else ""
LastTokens(tok, overlap_tokens) ==
  IF tok = << >> THEN << >> ELSE Decode(PySlice(tok, 0 - overlap_tokens, Len(tok)))

\* the overlap text put at the head of the new buf, "" when there is none
\* (build_faktor_corpus.py:273-282)
OverlapSeed(enc, buf, overlap_tokens) ==
  IF buf = << >> THEN << >>
  ELSE IF ChunkText(buf) # << >> /\ overlap_tokens > 0 /\ enc
    THEN LastTokens(Encode(ChunkText(buf)), overlap_tokens)
  ELSE << >>

\* the paragraphs a text may be made of: none, one to six letters, a blank,
\* and a letter no other paragraph holds
ParaPool ==
  { << >>, << "a" >>, << "a", "a" >>, << "a", "a", "a", "a", "a", "a" >>, << " " >>,
    << "b" >> }

MdTexts == { JoinWith(ps, ParaBreak) : ps \in SeqsUpTo(ParaPool, MaxParas) }

MdIdle ==
  /\ m_enc = FALSE /\ m_text = << >> /\ m_max = 0 /\ m_ovl = 0
  /\ m_paras = << >> /\ m_idx = 0 /\ m_buf = << >> /\ m_buf_tokens = 0
  /\ m_chunks = << >> /\ m_cur = << >> /\ m_parts = << >> /\ m_pc = "idle"

\* a call with any text, budget and overlap, with or without tiktoken
MdInit ==
  /\ m_enc \in BOOLEAN
  /\ m_text \in MdTexts
  /\ m_max \in 0..MaxTokens
  /\ m_ovl \in 0..MaxOverlap
  /\ m_paras = << >> /\ m_idx = 0 /\ m_buf = << >> /\ m_buf_tokens = 0
  /\ m_chunks = << >> /\ m_cur = << >> /\ m_parts = << >>
  /\ m_pc = "call"

\* build_faktor_corpus.py:251-254  paras = re.split(...); chunks = []; buf = []
MdSplit ==
  /\ m_pc = "call"
  /\ m_paras' = SplitParas(m_text)
  /\ m_idx' = 0 /\ m_buf' = << >> /\ m_buf_tokens' = 0
  /\ m_chunks' = << >> /\ m_cur' = << >> /\ m_parts' = << >>
  /\ m_pc' = "loop"
  /\ UNCHANGED << m_enc, m_text, m_max, m_ovl >>
  /\ UNCHANGED exceptMd

\* build_faktor_corpus.py:266-270  the paragraph fits: it joins buf
MdFits ==
  /\ m_pc = "loop" /\ m_idx < Len(m_paras)
  /\ m_buf_tokens + TokenizeLen(m_enc, m_paras[m_idx + 1]) <= m_max
  /\ m_buf' = Append(m_buf, m_paras[m_idx + 1])
  /\ m_buf_tokens' = m_buf_tokens + TokenizeLen(m_enc, m_paras[m_idx + 1])
  /\ m_cur' = Append(m_cur, m_paras[m_idx + 1])
  /\ m_idx' = m_idx + 1
  /\ UNCHANGED << m_enc, m_text, m_max, m_ovl, m_paras, m_chunks, m_parts, m_pc >>
  /\ UNCHANGED exceptMd

\* build_faktor_corpus.py:271-285  it does not fit: buf is flushed, the new
\* buf is seeded with the overlap and the paragraph is appended
MdOverflow ==
  /\ m_pc = "loop" /\ m_idx < Len(m_paras)
  /\ m_buf_tokens + TokenizeLen(m_enc, m_paras[m_idx + 1]) > m_max
  /\ m_chunks' = Flushed(m_buf, m_chunks)
  /\ m_parts' = IF m_buf = << >> THEN m_parts ELSE Append(m_parts, m_cur)
  /\ IF OverlapSeed(m_enc, m_buf, m_ovl) # << >>
       THEN /\ m_buf' = << OverlapSeed(m_enc, m_buf, m_ovl), m_paras[m_idx + 1] >>
            /\ m_buf_tokens' = TokenizeLen(m_enc, OverlapSeed(m_enc, m_buf, m_ovl))
                                 + TokenizeLen(m_enc, m_paras[m_idx + 1])
       ELSE /\ m_buf' = << m_paras[m_idx + 1] >>
            /\ m_buf_tokens' = TokenizeLen(m_enc, m_paras[m_idx + 1])
  /\ m_cur' = << m_paras[m_idx + 1] >>
  /\ m_idx' = m_idx + 1
  /\ UNCHANGED << m_enc, m_text, m_max, m_ovl, m_paras, m_pc >>
  /\ UNCHANGED exceptMd

\* build_faktor_corpus.py:286  the paragraphs are used up: the last flush()
MdFinish ==
  /\ m_pc = "loop" /\ m_idx = Len(m_paras)
  /\ m_chunks' = Flushed(m_buf, m_chunks)
  /\ m_parts' = IF m_buf = << >> THEN m_parts ELSE Append(m_parts, m_cur)
  /\ m_buf' = << >> /\ m_buf_tokens' = 0 /\ m_cur' = << >>
  /\ m_pc' = "done"
  /\ UNCHANGED << m_enc, m_text, m_max, m_ovl, m_paras, m_idx >>
  /\ UNCHANGED exceptMd

(***************************************************************************)
(* Section extraction: crawler.py extract_paragraphs()                     *)
(***************************************************************************)
\* the most nodes of a page
MaxNodes == 5

\* the tags of a page; "#text" is a NavigableString lying between elements,
\* an h2 or a p holds its own text
Tags == { "h2", "p", "section", "#text" }

ContainerTags == { "section" }

\* block_tags of iter_text_blocks (crawler.py:179)
BlockTags == { "p", "li", "pre", "code", "blockquote" }

\* skips of iter_text_blocks (crawler.py:178)
SkipTags == { "script", "style", "noscript", "header", "footer", "nav", "form", "svg" }

\* the text of the i-th node of a page when it is not blank
NodeText(i) ==
  IF i = 1 THEN << "Install" >>
  ELSE IF i = 2 THEN << "Step", " ", "one" >>
  ELSE IF i = 3 THEN << "Next" >>
  ELSE IF i = 4 THEN << "Step", " ", "two" >>
  ELSE << "more" >>

\* whether node j lies below node n (n = 0 is content_root)
RECURSIVE IsInside(_, _, _)
IsInside(doc, j, n) ==
  IF j = 0 THEN FALSE
  ELSE IF doc[j].parent = n THEN TRUE
  ELSE IsInside(doc, doc[j].parent, n)

\* the nodes a further node of a page may be the child of
OpenParents(doc) ==
  { 0 } \cup { j \in 1..Len(doc) :
                /\ doc[j].tag \in ContainerTags
                /\ j = Len(doc) \/ IsInside(doc, Len(doc), j) }

\* the texts the node after those of doc may hold
TextsFor(doc, tag) ==
  IF tag \in ContainerTags THEN { << >> }
  ELSE IF tag = "h2" THEN { NodeText(Len(doc) + 1) }
  ELSE { NodeText(Len(doc) + 1), << "\n", " " >> }

\* the nodes that may follow those of doc
NextNodes(doc) ==
  UNION { [ tag : { t }, parent : OpenParents(doc), text : TextsFor(doc, t) ] :
            t \in Tags }

\* the pages of exactly n nodes
RECURSIVE DocsOfSize(_)
DocsOfSize(n) ==
  IF n = 0 THEN { << >> }
  ELSE UNION { { Append(doc, node) : node \in NextNodes(doc) } :
                 doc \in DocsOfSize(n - 1) }

\* the pages of at most n nodes
DocsUpTo(n) == UNION { DocsOfSize(k) : k \in 0..n }

\* crawler.py clean_text(text): whitespace runs become one blank, the ends
\* are stripped
CleanText(text) == JoinWith(SplitWords(text), << " " >>)

\* a set of node numbers in document order
RECURSIVE InOrder(_)
InOrder(S) ==
  IF S = {} THEN << >>
  ELSE << CHOOSE j \in S : \A k \in S : j <= k >>
         \o InOrder(S \ { CHOOSE j \in S : \A k \in S : j <= k })

\* node.find_all(names): the elements below node with one of the names, in
\* document order; node itself is not among them
FindAll(doc, node, names) ==
  InOrder({ j \in 1..Len(doc) : IsInside(doc, j, node) /\ doc[j].tag \in names })

\* the NavigableString children of el whose text is not blank
\* (crawler.py:189-194)
TextChildren(doc, el) ==
  InOrder({ j \in 1..Len(doc) :
              /\ doc[j].parent = el /\ doc[j].tag = "#text"
              /\ CleanText(doc[j].text) # << >> })

\* what iter_text_blocks yields for one element of find_all(True)
\* (crawler.py:181-194)
ElementBlocks(doc, el) ==
  IF doc[el].tag \in SkipTags THEN << >>
  ELSE (IF doc[el].tag \in BlockTags /\ CleanText(doc[el].text) # << >>
          THEN << el >> ELSE << >>)
       \o (IF doc[el].tag \in { "section", "article" }
            THEN TextChildren(doc, el) ELSE << >>)

RECURSIVE BlocksOfElements(_, _)
BlocksOfElements(doc, els) ==
  IF els = << >> THEN << >>
  ELSE ElementBlocks(doc, Head(els)) \o BlocksOfElements(doc, Tail(els))

\* crawler.py iter_text_blocks(node): the nodes whose text is yielded
IterTextBlocks(doc, node) ==
  BlocksOfElements(doc, FindAll(doc, node, Tags \ { "#text" }))

\* every sibling of start that is not blank, those before it as well
SiblingsOfHeading(doc, start) ==
  InOrder({ j \in 1..Len(doc) :
              /\ j # start
              /\ doc[j].parent = doc[start].parent
              /\ doc[j].tag # "h2"
              /\ ~(doc[j].tag = "#text" /\ CleanText(doc[j].text) = << >>) })

\* siblings_until_next_heading(start) (crawler.py:242-253): the following
\* siblings up to the next h2, blank strings left out
SiblingsUntilNextHeading(doc, start) ==
  InOrder({ j \in (start + 1)..Len(doc) :
              /\ doc[j].parent = doc[start].parent
              /\ \A k \in (start + 1)..j :
                   ~(doc[k].parent = doc[start].parent /\ doc[k].tag = "h2")
              /\ ~(doc[j].tag = "#text" /\ CleanText(doc[j].text) = << >>) })

\* the nodes whose text one section's parts give, in order
\* (crawler.py:262-280)
RECURSIVE PartBlocks(_, _, _)
PartBlocks(doc, parts, seen) ==
  IF parts = << >> THEN << >>
  ELSE IF Head(parts) \in seen THEN PartBlocks(doc, Tail(parts), seen)
  ELSE IF doc[Head(parts)].tag = "#text"
    THEN << Head(parts) >> \o PartBlocks(doc, Tail(parts), seen)
  ELSE IterTextBlocks(doc, Head(parts)) \o PartBlocks(doc, Tail(parts), seen)

\* records.append(ParagraphRecord(...)); para_idx += 1, for each node; the
\* fields heading and node tell which elements a record came from
RECURSIVE AppendRecords(_, _, _, _)
AppendRecords(records, doc, h, nodes) ==
  IF nodes = << >> THEN records
  ELSE AppendRecords(
         Append(records, [ heading_path |-> << CleanText(doc[h].text) >>,
                           paragraph_index |-> Len(records),
                           text |-> CleanText(doc[Head(nodes)].text),
                           heading |-> h,
                           node |-> Head(nodes) ]),
         doc, h, Tail(nodes))

DomIdle ==
  /\ d_doc = << >> /\ d_headings = << >> /\ d_h = 0 /\ d_seen = {}
  /\ d_records = << >> /\ d_pc = "idle"

\* a call on any page of at most MaxNodes nodes: a page of fewer nodes, or
\* one of them with a last node added
DomInit ==
  /\ \/ d_doc \in DocsUpTo(MaxNodes - 1)
     \/ \E doc \in DocsOfSize(MaxNodes - 1) : \E node \in NextNodes(doc) :
          d_doc = Append(doc, node)
  /\ d_headings = << >> /\ d_h = 0 /\ d_seen = {} /\ d_records = << >>
  /\ d_pc = "call"

\* crawler.py:236-257  records = []; headings = content_root.find_all(["h2"])
DomFindHeadings ==
  /\ d_pc = "call"
  /\ d_headings' = FindAll(d_doc, 0, { "h2" })
  /\ d_h' = 0 /\ d_seen' = {} /\ d_records' = << >>
  /\ d_pc' = "loop"
  /\ UNCHANGED d_doc
  /\ UNCHANGED exceptDom

\* crawler.py:259-280  one heading: the blocks of its parts become records
DomSection ==
  /\ d_pc = "loop" /\ d_h < Len(d_headings)
  /\ d_records' = AppendRecords(d_records, d_doc, d_headings[d_h + 1],
         PartBlocks(d_doc, SiblingsUntilNextHeading(d_doc, d_headings[d_h + 1]), d_seen))
  /\ d_seen' = d_seen \cup
         { SiblingsUntilNextHeading(d_doc, d_headings[d_h + 1])[i] :
             i \in 1..Len(SiblingsUntilNextHeading(d_doc, d_headings[d_h + 1])) }
  /\ d_h' = d_h + 1
  /\ UNCHANGED << d_doc, d_headings, d_pc >>
  /\ UNCHANGED exceptDom

\* crawler.py:284  return records
DomReturn ==
  /\ d_pc = "loop" /\ d_h = Len(d_headings)
  /\ d_pc' = "done"
  /\ UNCHANGED << d_doc, d_headings, d_h, d_seen, d_records >>
  /\ UNCHANGED exceptDom

(***************************************************************************)
(* Encoding resolution: crawler.py choose_best_encoding()                  *)
(*                                                                         *)
(* html_bytes is a list of items: a single byte, a run of ASCII bytes, the *)
(* three bytes of the byte-order mark, or the ASCII bytes of one <meta>    *)
(* tag.  An encoding tag is a string.                                      *)
(***************************************************************************)
\* how many bytes are searched for a <meta> tag  (crawler.py:69)
HeadBytes == 8192

\* the most items html_bytes is made of
MaxBytes == 3

\* Python's None where an encoding tag is expected
NoneTag == "<None>"

\* one byte, named by its hexadecimal value
Byte(b) == [ kind |-> "byte", name |-> b, size |-> 1 ]

\* n ASCII bytes that are no part of a <meta> tag
Ascii(n) == [ kind |-> "ascii", name |-> "", size |-> n ]

\* b"\xef\xbb\xbf"  (crawler.py:66)
Bom == [ kind |-> "bom", name |-> "EFBBBF", size |-> 3 ]

\* the bytes of <meta charset="name">, which the first pattern matches
\* (crawler.py:54)
MetaCharset(name) == [ kind |-> "meta-charset", name |-> name, size |-> 27 ]

\* the bytes of <meta http-equiv="Content-Type" content="text/html;
\* charset=name">, which the second pattern matches  (crawler.py:55)
MetaHttpEquiv(name) == [ kind |-> "meta-http-equiv", name |-> name, size |-> 74 ]

\* the first byte of a two-byte and of a three-byte UTF-8 sequence, and the
\* bytes that continue one
Lead2 == { "C3" }

Lead3 == { "E2" }

ContinuationBytes == { "A9" }

\* whether html_bytes[i..] decodes as UTF-8 when `need` continuation bytes
\* are due: bytes.decode("utf-8") raises on a byte that cannot stand where
\* it stands and on a sequence cut short by the end
RECURSIVE DecodesFrom(_, _, _)
DecodesFrom(bytes, i, need) ==
  IF i > Len(bytes) THEN need = 0
  ELSE IF bytes[i].kind # "byte" THEN need = 0 /\ DecodesFrom(bytes, i + 1, 0)
  ELSE IF bytes[i].name \in ContinuationBytes
    THEN need > 0 /\ DecodesFrom(bytes, i + 1, need - 1)
  ELSE IF bytes[i].name \in Lead2 THEN need = 0 /\ DecodesFrom(bytes, i + 1, 1)
  ELSE IF bytes[i].name \in Lead3 THEN need = 0 /\ DecodesFrom(bytes, i + 1, 2)
  ELSE FALSE

\* the strict decode never succeeds
DecodesNever(bytes) == FALSE

\* html_bytes.decode("utf-8") does not raise  (crawler.py:73-75)
DecodesAsUtf8(bytes) == DecodesFrom(bytes, 1, 0)

\* html_bytes.startswith(b"\xef\xbb\xbf")
StartsWithBom(bytes) == bytes # << >> /\ bytes[1] = Bom

\* html_bytes[:n]; a run of ASCII bytes is cut to what fits, a tag that is
\* cut is no longer the tag (no text of the model is cut inside a tag)
RECURSIVE TakeBytes(_, _)
TakeBytes(bytes, n) ==
  IF bytes = << >> \/ n <= 0 THEN << >>
  ELSE IF Head(bytes).size <= n
    THEN << Head(bytes) >> \o TakeBytes(Tail(bytes), n - Head(bytes).size)
  ELSE IF Head(bytes).kind = "ascii" THEN << Ascii(n) >>
  ELSE << [ kind |-> "cut", name |-> Head(bytes).name, size |-> n ] >>

\* re.search(pat, sample): the charset of the leftmost tag the pattern
\* matches, None when it matches none.  The non-ASCII bytes that
\* decode("ascii", errors="ignore") drops stand outside the tags.
SearchMeta(sample, kind) ==
  IF \E i \in 1..Len(sample) : sample[i].kind = kind
    THEN sample[CHOOSE i \in 1..Len(sample) :
                  /\ sample[i].kind = kind
                  /\ \A j \in 1..(i - 1) : sample[j].kind # kind].name
    ELSE NoneTag

\* crawler.py _detect_meta_charset(html_head_bytes): the first pattern is
\* searched in the whole sample before the second is tried
DetectMetaCharset(sample) ==
  IF SearchMeta(sample, "meta-charset") # NoneTag
    THEN SearchMeta(sample, "meta-charset")
    ELSE SearchMeta(sample, "meta-http-equiv")

\* a Content-Type header is the list of its parts: the media type and
\* charset parameters, whose value is bare (charset=UTF-8) or quoted
\* (charset="UTF-8"); None and "" are the empty list
MediaType == [ part |-> "type", name |-> "text/html", quoted |-> FALSE ]

CharsetParam(name, quoted) == [ part |-> "charset", name |-> name, quoted |-> quoted ]

\* crawler.py _parse_header_charset(content_type): charset=([\w\-\d:._]+)
\* does not match at a parameter whose value starts with a quote
ParseHeaderCharset(content_type) ==
  IF \E i \in 1..Len(content_type) :
       content_type[i].part = "charset" /\ ~content_type[i].quoted
    THEN content_type[CHOOSE i \in 1..Len(content_type) :
           /\ content_type[i].part = "charset" /\ ~content_type[i].quoted
           /\ \A j \in 1..(i - 1) :
                ~(content_type[j].part = "charset" /\ ~content_type[j].quoted)].name
    ELSE NoneTag

\* "if enc:" is false for None and for ""
Truthy(enc) == enc \notin { NoneTag, "" }

\* the header's charset is tried before the detector's guess
FallbackHeaderFirst(apparent_encoding, header_charset, resp_encoding) ==
  IF Truthy(header_charset) THEN header_charset
  ELSE IF Truthy(apparent_encoding) THEN apparent_encoding
  ELSE IF Truthy(resp_encoding) THEN resp_encoding
  ELSE "utf-8"

\* crawler.py:80-83  for enc in (apparent_encoding, header_charset,
\* resp_encoding): if enc: return enc; return "utf-8"
FallbackEncoding(apparent_encoding, header_charset, resp_encoding) ==
  IF Truthy(apparent_encoding) THEN apparent_encoding
  ELSE IF Truthy(header_charset) THEN header_charset
  ELSE IF Truthy(resp_encoding) THEN resp_encoding
  ELSE "utf-8"

\* the items a content is made of: ASCII, the pieces of well-formed and of
\* broken UTF-8, the mark, the two <meta> forms, and a run that fills the head
EncItems ==
  { Ascii(1), Byte("C3"), Byte("A9"), Byte("E2"), Byte("FF"), Bom,
    MetaCharset("iso-8859-1"), MetaHttpEquiv("windows-1256"), Ascii(HeadBytes) }

EncContents == SeqsUpTo(EncItems, MaxBytes)

\* resp.headers.get("Content-Type")
EncHeaders ==
  { << >>, << MediaType >>,
    << MediaType, CharsetParam("ISO-8859-1", FALSE) >>,
    << MediaType, CharsetParam("windows-1256", TRUE) >> }

\* resp.encoding
EncTransportGuesses == { NoneTag, "ISO-8859-1" }

\* resp.apparent_encoding
EncDetectorGuesses == { NoneTag, "", "windows-1256" }

EncIdle ==
  /\ e_bytes = << >> /\ e_header = << >> /\ e_resp = NoneTag
  /\ e_apparent = NoneTag /\ e_result = NoneTag /\ e_step = "none"
  /\ e_pc = "idle"

\* crawler.py:344-345  a call with any content and any transport metadata
EncInit ==
  /\ e_bytes \in EncContents
  /\ e_header \in EncHeaders
  /\ e_resp \in EncTransportGuesses
  /\ e_apparent \in EncDetectorGuesses
  /\ e_result = NoneTag /\ e_step = "none"
  /\ e_pc = "call"

\* crawler.py:66-67  the content starts with the byte-order mark
ChooseBom ==
  /\ e_pc = "call"
  /\ StartsWithBom(e_bytes)
  /\ e_result' = "utf-8-sig" /\ e_step' = "bom"
  /\ e_pc' = "done"
  /\ UNCHANGED << e_bytes, e_header, e_resp, e_apparent >>
  /\ UNCHANGED exceptEnc

\* crawler.py:69-71  a <meta> charset is found in html_bytes[:8192]
ChooseMeta ==
  /\ e_pc = "call"
  /\ ~StartsWithBom(e_bytes)
  /\ Truthy(DetectMetaCharset(TakeBytes(e_bytes, HeadBytes)))
  /\ e_result' = DetectMetaCharset(TakeBytes(e_bytes, HeadBytes))
  /\ e_step' = "meta"
  /\ e_pc' = "done"
  /\ UNCHANGED << e_bytes, e_header, e_resp, e_apparent >>
  /\ UNCHANGED exceptEnc

\* crawler.py:73-75  html_bytes.decode("utf-8") succeeds
ChooseUtf8 ==
  /\ e_pc = "call"
  /\ ~StartsWithBom(e_bytes)
  /\ ~Truthy(DetectMetaCharset(TakeBytes(e_bytes, HeadBytes)))
  /\ DecodesAsUtf8(e_bytes)
  /\ e_result' = "utf-8" /\ e_step' = "utf-8"
  /\ e_pc' = "done"
  /\ UNCHANGED << e_bytes, e_header, e_resp, e_apparent >>
  /\ UNCHANGED exceptEnc

\* crawler.py:76-83  the decode raised: the fallback order
ChooseFallback ==
  /\ e_pc = "call"
  /\ ~StartsWithBom(e_bytes)
  /\ ~Truthy(DetectMetaCharset(TakeBytes(e_bytes, HeadBytes)))
  /\ ~DecodesAsUtf8(e_bytes)
  /\ e_result' = FallbackEncoding(e_apparent, ParseHeaderCharset(e_header), e_resp)
  /\ e_step' = "fallback"
  /\ e_pc' = "done"
  /\ UNCHANGED << e_bytes, e_header, e_resp, e_apparent >>
  /\ UNCHANGED exceptEnc

(***************************************************************************)
(* The fetch step: build_faktor_corpus.py fetch(), and session.get() of    *)
(* crawler.py under the Retry policy that build_http_session() mounts      *)
(***************************************************************************)
\* the largest retries argument tried (its default is 3)
MaxRetries == 3

\* Retry(total=5, connect=5, read=5)  (crawler.py:25-27)
RetryTotal == 5

\* status_forcelist  (crawler.py:29)
StatusForcelist == { 429, 500, 502, 503, 504 }

\* what one request attempt meets: an exception of the transport, or a
\* response with a status and a body that is empty or not
Raised == [ raised |-> TRUE, status |-> 0, content |-> FALSE ]

Answer(status, content) == [ raised |-> FALSE, status |-> status, content |-> content ]

FetchAnswers ==
  { Raised, Answer(200, TRUE), Answer(200, FALSE), Answer(404, TRUE),
    Answer(429, TRUE), Answer(500, TRUE) }

\* resp.status_code == 200 and resp.content  (build_faktor_corpus.py:98)
IsPage(answer) == ~answer.raised /\ answer.status = 200 /\ answer.content

\* "for _ in range(retries)" has one more round than it should
AttemptsLeftOneMore(log, retries) == Len(log) <= retries

\* "for _ in range(retries)" has a round left  (build_faktor_corpus.py:95)
AttemptsLeft(log, retries) == Len(log) < retries

\* urllib3 Retry: the answer is retried when its status is in
\* status_forcelist, or it is an exception, and retries are left
\* (crawler.py:24-32)
RetryApplies(log, answer) ==
  /\ answer.raised \/ answer.status \in StatusForcelist
  /\ Len(log) < RetryTotal

FetchIdle ==
  /\ f_prog = "none" /\ f_retries = 0 /\ f_log = << >> /\ f_sleeps = 0
  /\ f_last_exc = FALSE /\ f_pc = "idle"

\* build_faktor_corpus.py:92-94  fetch(url, session, retries) is entered;
\* crawler.py:337  session.get(url, timeout=20) is entered
FetchInit ==
  /\ \/ f_prog = "fetch" /\ f_retries \in 0..MaxRetries
     \/ f_prog = "session.get" /\ f_retries = RetryTotal
  /\ f_log = << >> /\ f_sleeps = 0 /\ f_last_exc = FALSE
  /\ f_pc = "loop"

\* build_faktor_corpus.py:97-130  the attempt yields status 200 with
\* content: the text is decoded and returned
FetchAttemptReturns ==
  /\ f_prog = "fetch" /\ f_pc = "loop"
  /\ AttemptsLeft(f_log, f_retries)
  /\ \E answer \in FetchAnswers :
       /\ IsPage(answer)
       /\ f_log' = Append(f_log, answer)
  /\ f_pc' = "returned"
  /\ UNCHANGED << f_prog, f_retries, f_sleeps, f_last_exc >>
  /\ UNCHANGED exceptFetch

\* build_faktor_corpus.py:97-98, 131-136  the attempt yields another status
\* or no content: time.sleep(0.7) and the next round
FetchAttemptFails ==
  /\ f_prog = "fetch" /\ f_pc = "loop"
  /\ AttemptsLeft(f_log, f_retries)
  /\ \E answer \in FetchAnswers :
       /\ ~answer.raised /\ ~IsPage(answer)
       /\ f_log' = Append(f_log, answer)
  /\ f_sleeps' = f_sleeps + 1
  /\ UNCHANGED << f_prog, f_retries, f_last_exc, f_pc >>
  /\ UNCHANGED exceptFetch

\* build_faktor_corpus.py:97, 134-136  session.get raises: last_exc = e,
\* time.sleep(0.7) and the next round
FetchAttemptRaises ==
  /\ f_prog = "fetch" /\ f_pc = "loop"
  /\ AttemptsLeft(f_log, f_retries)
  /\ f_log' = Append(f_log, Raised)
  /\ f_last_exc' = TRUE
  /\ f_sleeps' = f_sleeps + 1
  /\ UNCHANGED << f_prog, f_retries, f_pc >>
  /\ UNCHANGED exceptFetch

\* build_faktor_corpus.py:137  the rounds are used up: raise RuntimeError
FetchGivesUp ==
  /\ f_prog = "fetch" /\ f_pc = "loop"
  /\ ~AttemptsLeft(f_log, f_retries)
  /\ f_pc' = "raised"
  /\ UNCHANGED << f_prog, f_retries, f_log, f_sleeps, f_last_exc >>
  /\ UNCHANGED exceptFetch

\* crawler.py:24-32, 337  the attempt is retried by the adapter after its
\* backoff sleep
SessionGetRetries ==
  /\ f_prog = "session.get" /\ f_pc = "loop"
  /\ \E answer \in FetchAnswers :
       /\ RetryApplies(f_log, answer)
       /\ f_log' = Append(f_log, answer)
       /\ f_last_exc' = answer.raised
  /\ f_sleeps' = f_sleeps + 1
  /\ UNCHANGED << f_prog, f_retries, f_pc >>
  /\ UNCHANGED exceptFetch

\* crawler.py:24-32, 337  a response is handed to crawl(): its status is not
\* in status_forcelist, or the retries are used up (raise_on_status=False)
SessionGetReturns ==
  /\ f_prog = "session.get" /\ f_pc = "loop"
  /\ \E answer \in FetchAnswers :
       /\ ~answer.raised /\ ~RetryApplies(f_log, answer)
       /\ f_log' = Append(f_log, answer)
  /\ f_pc' = "returned"
  /\ UNCHANGED << f_prog, f_retries, f_sleeps, f_last_exc >>
  /\ UNCHANGED exceptFetch

\* crawler.py:24-32, 337-339  the transport raised and the retries are used
\* up: session.get raises
SessionGetRaises ==
  /\ f_prog = "session.get" /\ f_pc = "loop"
  /\ ~RetryApplies(f_log, Raised)
  /\ f_log' = Append(f_log, Raised)
  /\ f_last_exc' = TRUE
  /\ f_pc' = "raised"
  /\ UNCHANGED << f_prog, f_retries, f_sleeps >>
  /\ UNCHANGED exceptFetch

(***************************************************************************)
(* The robots policy: crawler.py load_robots(), is_allowed_by_robots() and *)
(* the test crawl() makes of each URL                                      *)
(***************************************************************************)
\* the most URLs one run tests
MaxTests == 3

\* RobotFileParser(): nothing read yet
NewRobotFileParser ==
  [ disallow_all |-> FALSE, allow_all |-> FALSE, last_checked |-> FALSE,
    disallowed |-> {} ]

\* what the request for scheme://netloc/robots.txt meets: the file, with the
\* URLs its rules refuse the user agent; an HTTP error status; no answer
RobotsServed(disallowed) == [ kind |-> "served", code |-> 200, disallowed |-> disallowed ]

RobotsHttpError(code) == [ kind |-> "http-error", code |-> code, disallowed |-> {} ]

RobotsUnreachable == [ kind |-> "unreachable", code |-> 0, disallowed |-> {} ]

RobotsAnswers ==
  { RobotsServed({}), RobotsServed({ UrlGX }), RobotsUnreachable,
    RobotsHttpError(401), RobotsHttpError(403), RobotsHttpError(404),
    RobotsHttpError(500) }

\* RobotFileParser.parse(lines): modified() stamps last_checked and the
\* rules are kept; parse([]) keeps none  (crawler.py:135)
RobotsParse(rp, disallowed) ==
  [ rp EXCEPT !.last_checked = TRUE, !.disallowed = disallowed ]

\* RobotFileParser.read() on an HTTPError: 401 and 403 set disallow_all,
\* any other 4xx sets allow_all, a 5xx sets nothing  (crawler.py:132)
RobotsOnHttpError(rp, code) ==
  IF code \in { 401, 403 } THEN [ rp EXCEPT !.disallow_all = TRUE ]
  ELSE IF code >= 400 /\ code < 500 THEN [ rp EXCEPT !.allow_all = TRUE ]
  ELSE rp

\* crawler.py is_allowed_by_robots(rp, url, user_agent): rp.can_fetch, which
\* refuses everything under disallow_all and before anything was read
CanFetch(rp, url) ==
  IF rp.disallow_all THEN FALSE
  ELSE IF rp.allow_all THEN TRUE
  ELSE IF ~rp.last_checked THEN FALSE
  ELSE url \notin rp.disallowed

RobotsIdle ==
  /\ r_answer = RobotsUnreachable /\ r_rp = NewRobotFileParser /\ r_loads = 0
  /\ r_tests = << >> /\ r_pc = "idle"

\* crawler.py:322-325  crawl() is entered, against any robots.txt
RobotsInit ==
  /\ r_answer \in RobotsAnswers
  /\ r_rp = NewRobotFileParser /\ r_loads = 0 /\ r_tests = << >>
  /\ r_pc = "call"

\* crawler.py:325, 126-137  load_robots: rp.read() gets the file and parses it
RobotsReadServed ==
  /\ r_pc = "call" /\ r_answer.kind = "served"
  /\ r_rp' = RobotsParse(NewRobotFileParser, r_answer.disallowed)
  /\ r_loads' = r_loads + 1
  /\ r_pc' = "loop"
  /\ UNCHANGED << r_answer, r_tests >>
  /\ UNCHANGED exceptRobots

\* crawler.py:325, 126-137  load_robots: rp.read() meets an HTTP error
\* status, which it handles itself: no exception reaches load_robots
RobotsReadHttpError ==
  /\ r_pc = "call" /\ r_answer.kind = "http-error"
  /\ r_rp' = RobotsOnHttpError(NewRobotFileParser, r_answer.code)
  /\ r_loads' = r_loads + 1
  /\ r_pc' = "loop"
  /\ UNCHANGED << r_answer, r_tests >>
  /\ UNCHANGED exceptRobots

\* crawler.py:325, 126-137  load_robots: rp.read() raises (no answer from
\* the host): rp.parse([])
RobotsReadRaises ==
  /\ r_pc = "call" /\ r_answer.kind = "unreachable"
  /\ r_rp' = RobotsParse(NewRobotFileParser, {})
  /\ r_loads' = r_loads + 1
  /\ r_pc' = "loop"
  /\ UNCHANGED << r_answer, r_tests >>
  /\ UNCHANGED exceptRobots

\* crawler.py:334  is_allowed_by_robots(robots, url, user_agent) in the loop
RobotsTest ==
  /\ r_pc = "loop" /\ Len(r_tests) < MaxTests
  /\ \E url \in PageUrls :
       r_tests' = Append(r_tests, [ url |-> url, allowed |-> CanFetch(r_rp, url) ])
  /\ UNCHANGED << r_answer, r_rp, r_loads, r_pc >>
  /\ UNCHANGED exceptRobots

(***************************************************************************)
(* The record producers: the wrap of chunk_markdown as called for each     *)
(* page by crawl_and_build of build_faktor_corpus.py, build_records of     *)
(* build_embeddings_json.py and create_chunks_from_pages of rag_chunk.py.  *)
(* The chunk list of each document is an input.                            *)
(***************************************************************************)
\* the longest list of documents handed to a producer
MaxDocs == 3

\* the longest chunk list of one document
MaxDocChunks == 3

\* the chunk texts of a document, in the order the chunker emits them
ChunkTexts == << "k1", "k2", "k3" >>

\* the chunk lists of at least lo chunks
ChunkLists(lo) == { SubSeq(ChunkTexts, 1, n) : n \in lo..MaxDocChunks }

\* a document with what the producer gets for it
Doc(outcome, chunks) == [outcome |-> outcome, chunks |-> chunks]

\* chunk_markdown returns at least one chunk: re.split yields at least one
\* paragraph, which the closing flush() emits
MarkdownDocs == { Doc("chunked", c) : c \in ChunkLists(1) }

\* chunk_text returns [] for a file that is empty after cleaning
FileDocs == { Doc("chunked", c) : c \in ChunkLists(0) }

\* a page of create_chunks_from_pages: its fetch fails, its text has fewer
\* than 20 words, or chunk_text_by_words cuts it into one chunk or more
PageDocs ==
  { Doc("fetch failed", << >>), Doc("too short", << >>) }
    \cup { Doc("chunked", c) : c \in ChunkLists(1) }

DocsOf(prog) ==
  CASE prog = "chunk_markdown" -> MarkdownDocs
    [] prog = "build_records" -> FileDocs
    [] OTHER -> PageDocs

\* the index given to the first chunk of every document, always 0
FirstIndexZero(prog) == 0

\* the index given to the first chunk of a document: i + 1 over
\* enumerate(chunks) in chunk_markdown, the enumerate counter itself in
\* build_records and create_chunks_from_pages
FirstIndex(prog) == IF prog = "chunk_markdown" THEN 1 ELSE 0

\* the id of a record: "<url>#chunk-<i+1>", stable_id(base_id, str(idx)),
\* or "chunk_<cid>" with cid counted over the whole run
RecordId(prog, d, i, cid) ==
  CASE prog = "chunk_markdown" -> << d, i + 1 >>
    [] prog = "build_records" -> << d, i >>
    [] OTHER -> << 0, cid >>

\* the records of document d: one for each chunk, in the order of the list
RecordsOf(prog, d, chunks, cid) ==
  [k \in 1..Len(chunks) |->
     [doc |-> d,
      id |-> RecordId(prog, d, k - 1, cid + k - 1),
      chunk_index |-> FirstIndex(prog) + k - 1,
      text |-> chunks[k]]]

\* build_records guarantees one chunk for every file
AtLeastOneChunk(chunks) == IF chunks = << >> THEN << "" >> ELSE chunks

RecIdle ==
  /\ x_prog = "none" /\ x_docs = << >> /\ x_idx = 0 /\ x_records = << >>
  /\ x_cid = 0 /\ x_pc = "idle"

RecInit ==
  /\ x_prog \in { "chunk_markdown", "build_records", "create_chunks_from_pages" }
  /\ x_docs \in SeqsUpTo(DocsOf(x_prog), MaxDocs)
  /\ x_idx = 0
  /\ x_records = << >>
  /\ x_cid = 0
  /\ x_pc = "loop"

\* crawl_and_build writing the JSONL file: chunk_markdown for the next page
RecWrapMarkdown ==
  /\ x_pc = "loop" /\ x_prog = "chunk_markdown" /\ x_idx < Len(x_docs)
  /\ x_idx' = x_idx + 1
  /\ x_records' = x_records \o RecordsOf(x_prog, x_idx', x_docs[x_idx'].chunks, x_cid)
  /\ UNCHANGED << x_prog, x_docs, x_cid, x_pc >>
  /\ UNCHANGED exceptRec

\* build_records: the next text file
RecBuildFile ==
  /\ x_pc = "loop" /\ x_prog = "build_records" /\ x_idx < Len(x_docs)
  /\ x_idx' = x_idx + 1
  /\ x_records' = x_records \o
       RecordsOf(x_prog, x_idx', AtLeastOneChunk(x_docs[x_idx'].chunks), x_cid)
  /\ UNCHANGED << x_prog, x_docs, x_cid, x_pc >>
  /\ UNCHANGED exceptRec

\* create_chunks_from_pages: fetch_url raises for the next page
RecPageFetchFails ==
  /\ x_pc = "loop" /\ x_prog = "create_chunks_from_pages" /\ x_idx < Len(x_docs)
  /\ x_docs[x_idx + 1].outcome = "fetch failed"
  /\ x_idx' = x_idx + 1
  /\ UNCHANGED << x_prog, x_docs, x_records, x_cid, x_pc >>
  /\ UNCHANGED exceptRec

\* create_chunks_from_pages: the next page has fewer than 20 words
RecPageTooShort ==
  /\ x_pc = "loop" /\ x_prog = "create_chunks_from_pages" /\ x_idx < Len(x_docs)
  /\ x_docs[x_idx + 1].outcome = "too short"
  /\ x_idx' = x_idx + 1
  /\ UNCHANGED << x_prog, x_docs, x_records, x_cid, x_pc >>
  /\ UNCHANGED exceptRec

\* create_chunks_from_pages: the next page is chunked and its chunks appended
RecPageChunked ==
  /\ x_pc = "loop" /\ x_prog = "create_chunks_from_pages" /\ x_idx < Len(x_docs)
  /\ x_docs[x_idx + 1].outcome = "chunked"
  /\ x_idx' = x_idx + 1
  /\ x_records' = x_records \o RecordsOf(x_prog, x_idx', x_docs[x_idx'].chunks, x_cid)
  /\ x_cid' = x_cid + Len(x_docs[x_idx'].chunks)
  /\ UNCHANGED << x_prog, x_docs, x_pc >>
  /\ UNCHANGED exceptRec

\* the loop over the documents ends
RecReturn ==
  /\ x_pc = "loop" /\ x_idx = Len(x_docs)
  /\ x_pc' = "done"
  /\ UNCHANGED << x_prog, x_docs, x_idx, x_records, x_cid >>
  /\ UNCHANGED exceptRec

(***************************************************************************)
(* The decode stage of fetch(): build_faktor_corpus.py:107-130             *)
(*                                                                         *)
(* resp.content is a list of items as above.  The text decoded from it is  *)
(* a list of characters, each with the codec that produced it and the      *)
(* bytes it was made of.                                                   *)
(***************************************************************************)
\* the most items resp.content is made of
MaxContent == 2

\* chardet's confidence, in tenths, above which fetch() takes its guess
\* (build_faktor_corpus.py:112, "> 0.7")
ConfidenceFloor == 7

\* str.lower() of an encoding name
Lower(enc) ==
  CASE enc = "ISO-8859-1" -> "iso-8859-1"
    [] enc = "UTF-8" -> "utf-8"
    [] OTHER -> enc

\* the codec Python finds for a name given to bytes.decode(): names are
\* looked up without regard to case, "latin-1" is an alias of iso-8859-1,
\* "undefined" is the codec whose every operation fails; for any other name
\* of the model the lookup fails
CodecOf(enc) ==
  CASE Lower(enc) = "utf-8" -> "utf-8"
    [] Lower(enc) \in { "iso-8859-1", "latin-1" } -> "iso-8859-1"
    [] Lower(enc) = "windows-1256" -> "windows-1256"
    [] Lower(enc) = "undefined" -> "undefined"
    [] OTHER -> "<none>"

\* one character of a decoded text
Char(codec, bytes) == [ by |-> codec, of |-> bytes ]

\* what a decode gives: a text, or the exception it raises
Decoded(text) == [ kind |-> "text", text |-> text ]

Raises(exception) == [ kind |-> exception, text |-> << >> ]

\* a codec of one byte per character, in which every byte is a character
RECURSIVE DecodeSingleByte(_, _)
DecodeSingleByte(bytes, codec) ==
  IF bytes = << >> THEN << >>
  ELSE << Char(IF Head(bytes).kind = "byte" THEN codec ELSE "ascii", << Head(bytes) >>) >>
         \o DecodeSingleByte(Tail(bytes), codec)

\* whether a complete UTF-8 sequence of n bytes starts at bytes[i]
SequenceAt(bytes, i, n) ==
  /\ i + n - 1 <= Len(bytes)
  /\ bytes[i].kind = "byte"
  /\ bytes[i].name \in (IF n = 2 THEN Lead2 ELSE Lead3)
  /\ \A j \in (i + 1)..(i + n - 1) :
       bytes[j].kind = "byte" /\ bytes[j].name \in ContinuationBytes

\* the characters of bytes[i..] in UTF-8; a byte that does not belong to a
\* complete sequence becomes U+FFFD, as with errors="replace"
RECURSIVE DecodeUtf8From(_, _)
DecodeUtf8From(bytes, i) ==
  IF i > Len(bytes) THEN << >>
  ELSE IF bytes[i].kind # "byte"
    THEN << Char("ascii", << bytes[i] >>) >> \o DecodeUtf8From(bytes, i + 1)
  ELSE IF SequenceAt(bytes, i, 2)
    THEN << Char("utf-8", SubSeq(bytes, i, i + 1)) >> \o DecodeUtf8From(bytes, i + 2)
  ELSE IF SequenceAt(bytes, i, 3)
    THEN << Char("utf-8", SubSeq(bytes, i, i + 2)) >> \o DecodeUtf8From(bytes, i + 3)
  ELSE << Char("U+FFFD", << bytes[i] >>) >> \o DecodeUtf8From(bytes, i + 1)

\* resp.content.decode("utf-8", errors="replace")
\* (build_faktor_corpus.py:128)
DecodeReplace(bytes) == Decoded(DecodeUtf8From(bytes, 1))

\* resp.content.decode(encoding)
DecodeBytes(bytes, enc) ==
  CASE CodecOf(enc) = "utf-8" ->
         IF DecodesAsUtf8(bytes) THEN Decoded(DecodeUtf8From(bytes, 1))
         ELSE Raises("UnicodeDecodeError")
    [] CodecOf(enc) \in { "iso-8859-1", "windows-1256" } ->
         Decoded(DecodeSingleByte(bytes, CodecOf(enc)))
    [] CodecOf(enc) = "undefined" -> Raises("UnicodeError")
    [] OTHER -> Raises("LookupError")

\* except (UnicodeDecodeError, LookupError)
\* (build_faktor_corpus.py:118, 124)
Caught(outcome) == outcome.kind \in { "UnicodeDecodeError", "LookupError" }

\* the fallback chain  (build_faktor_corpus.py:120)
FallbackEncodings == << "utf-8", "windows-1256", "iso-8859-1" >>

\* for fallback_enc in [...]: try decode, break; else: the last resort
\* (build_faktor_corpus.py:120-128), from the k-th fallback on
RECURSIVE FallbackChain(_, _)
FallbackChain(bytes, k) ==
  IF k > Len(FallbackEncodings) THEN DecodeReplace(bytes)
  ELSE IF \/ DecodeBytes(bytes, FallbackEncodings[k]).kind = "text"
          \/ ~Caught(DecodeBytes(bytes, FallbackEncodings[k]))
    THEN DecodeBytes(bytes, FallbackEncodings[k])
  ELSE FallbackChain(bytes, k + 1)

\* chardet is not installed, or has no guess
NoChardet == [ has |-> FALSE, encoding |-> NoneTag, confidence |-> 0 ]

Chardet(enc, confidence) == [ has |-> TRUE, encoding |-> enc, confidence |-> confidence ]

\* encoding = resp.encoding or detect_encoding(resp.content), then the
\* re-check of a Latin-1 answer by chardet  (build_faktor_corpus.py:107-113)
ChosenEncoding(resp_encoding, detected, chardet) ==
  IF /\ Lower(IF Truthy(resp_encoding) THEN resp_encoding ELSE detected)
          \in { "iso-8859-1", "latin-1" }
     /\ chardet.has /\ chardet.confidence > ConfidenceFloor
    THEN chardet.encoding
  ELSE IF Truthy(resp_encoding) THEN resp_encoding ELSE detected

\* the items of a response body
DecItems == { Ascii(1), Byte("C3"), Byte("A9"), Byte("FF") }

\* resp.content of a response that passed "resp.status_code == 200 and
\* resp.content": not empty
DecContents == SeqsUpTo(DecItems, MaxContent) \ { << >> }

\* resp.encoding: None without a charset, ISO-8859-1 as the default
\* requests gives to text/* without one, or the charset of the header
DecRespEncodings ==
  { NoneTag, "ISO-8859-1", "utf-8", "windows-1256", "x-unknown", "undefined" }

\* detect_encoding(resp.content): a lower-cased charset of a <meta> tag,
\* chardet's guess, or the default "utf-8"
DecDetected == { "utf-8", "windows-1256", "latin-1", "x-unknown", "undefined" }

DecChardets ==
  { NoChardet, Chardet("utf-8", 5), Chardet("utf-8", 9), Chardet("windows-1256", 9) }

DecIdle ==
  /\ g_bytes = << >> /\ g_resp = NoneTag /\ g_detected = NoneTag
  /\ g_chardet = NoChardet /\ g_encoding = NoneTag /\ g_text = << >>
  /\ g_pc = "idle"

DecInit ==
  /\ g_bytes \in DecContents
  /\ g_resp \in DecRespEncodings
  /\ g_detected \in DecDetected
  /\ g_chardet \in DecChardets
  /\ g_encoding = NoneTag
  /\ g_text = << >>
  /\ g_pc = "call"

\* build_faktor_corpus.py:107-113  the encoding is chosen
DecChoose ==
  /\ g_pc = "call"
  /\ g_encoding' = ChosenEncoding(g_resp, g_detected, g_chardet)
  /\ g_pc' = "decode"
  /\ UNCHANGED << g_bytes, g_resp, g_detected, g_chardet, g_text >>
  /\ UNCHANGED exceptDec

\* build_faktor_corpus.py:116-117, 130  the decode succeeds
DecReturns ==
  /\ g_pc = "decode"
  /\ DecodeBytes(g_bytes, g_encoding).kind = "text"
  /\ g_text' = DecodeBytes(g_bytes, g_encoding).text
  /\ g_pc' = "returned"
  /\ UNCHANGED << g_bytes, g_resp, g_detected, g_chardet, g_encoding >>
  /\ UNCHANGED exceptDec

\* build_faktor_corpus.py:118  the decode raises what the except clause names
DecCaught ==
  /\ g_pc = "decode"
  /\ DecodeBytes(g_bytes, g_encoding).kind # "text"
  /\ Caught(DecodeBytes(g_bytes, g_encoding))
  /\ g_pc' = "chain"
  /\ UNCHANGED << g_bytes, g_resp, g_detected, g_chardet, g_encoding, g_text >>
  /\ UNCHANGED exceptDec

\* build_faktor_corpus.py:116-118, 134-135  the decode raises something
\* else: the exception leaves the decode stage for the handler of the attempt
DecRaises ==
  /\ g_pc = "decode"
  /\ DecodeBytes(g_bytes, g_encoding).kind # "text"
  /\ ~Caught(DecodeBytes(g_bytes, g_encoding))
  /\ g_pc' = "raised"
  /\ UNCHANGED << g_bytes, g_resp, g_detected, g_chardet, g_encoding, g_text >>
  /\ UNCHANGED exceptDec

\* build_faktor_corpus.py:119-130  the fallback chain and its last resort
DecFallback ==
  /\ g_pc = "chain"
  /\ g_text' = FallbackChain(g_bytes, 1).text
  /\ g_pc' = IF FallbackChain(g_bytes, 1).kind = "text" THEN "returned" ELSE "raised"
  /\ UNCHANGED << g_bytes, g_resp, g_detected, g_chardet, g_encoding >>
  /\ UNCHANGED exceptDec

(***************************************************************************)
(* Title resolution: extract_title() of build_faktor_corpus.py and of      *)
(* crawler.py                                                              *)
(***************************************************************************)
\* An element is the sequence of its children; a child is a string, or an
\* inline tag around at most one string (text = << >>: an empty tag).
\* The parser never makes an empty string and never two strings in a row.
NoElement == [ found |-> FALSE, children |-> << >> ]

\* the most children of an h1 or title element
MaxChildren == 2

\* the strings of an element whose letter is c: blank, plain, and with a
\* blank at the end
TitleTexts(c) == { << " " >>, << c >>, << c, " " >> }

TitleChildren(c) ==
  [ tag : { FALSE }, text : TitleTexts(c) ]
    \cup [ tag : { TRUE }, text : TitleTexts(c) \cup { << >> } ]

TitleElements(c) ==
  { NoElement } \cup
  { [ found |-> TRUE, children |-> cs ] :
      cs \in { s \in SeqsUpTo(TitleChildren(c), MaxChildren) :
                 \A i \in 1..(Len(s) - 1) : s[i].tag \/ s[i + 1].tag } }

\* bs4 Tag._all_strings(): the strings below the element, in document order
RECURSIVE AllStrings(_)
AllStrings(children) ==
  IF children = << >> THEN << >>
  ELSE (IF Head(children).text = << >> THEN << >> ELSE << Head(children).text >>)
       \o AllStrings(Tail(children))

\* bs4 Tag._all_strings(strip=True): each string stripped, the empty ones left out
RECURSIVE StrippedStrings(_)
StrippedStrings(strings) ==
  IF strings = << >> THEN << >>
  ELSE (IF Strip(Head(strings)) = << >> THEN << >> ELSE << Strip(Head(strings)) >>)
       \o StrippedStrings(Tail(strings))

\* bs4 Tag.get_text(separator, strip)
GetText(el, separator, strip) ==
  JoinWith(IF strip THEN StrippedStrings(AllStrings(el.children))
                    ELSE AllStrings(el.children),
           separator)

\* bs4 Tag.string: the string of an element with one child, which is a
\* string or a tag with one string; None otherwise
TagString(el) ==
  IF Len(el.children) = 1 /\ el.children[1].text # << >>
  THEN el.children[1].text
  ELSE None

\* build_faktor_corpus.py extract_title(soup, fallback)
ExtractTitleBuild(h1, title, fallback) ==
  IF h1.found /\ GetText(h1, << >>, TRUE) # << >>
  THEN GetText(h1, << " " >>, TRUE)
  ELSE IF title.found /\ GetText(title, << >>, TRUE) # << >>
  THEN GetText(title, << " " >>, TRUE)
  ELSE IF fallback \in { None, << >> } THEN << >> ELSE fallback

\* crawler.py extract_title(soup)
ExtractTitleCrawler(h1, title) ==
  IF title.found /\ TagString(title) # None
  THEN CleanText(TagString(title))
  ELSE IF h1.found THEN CleanText(GetText(h1, << >>, FALSE))
  ELSE << >>

\* the fallback argument: left out, empty, or a default
TitleFallbacks == { None, << >>, << "d" >> }

TitleIdle ==
  /\ t_prog = "none" /\ t_h1 = NoElement /\ t_title = NoElement
  /\ t_fallback = None /\ t_result = None /\ t_pc = "idle"

\* any h1 and any title element; crawler.py's function takes no fallback
TitleInit ==
  /\ t_h1 \in TitleElements("h")
  /\ t_title \in TitleElements("t")
  /\ \/ t_prog = "build_faktor_corpus" /\ t_fallback \in TitleFallbacks
     \/ t_prog = "crawler" /\ t_fallback = None
  /\ t_result = None
  /\ t_pc = "call"

\* build_faktor_corpus.py:169-178
TitleBuild ==
  /\ t_prog = "build_faktor_corpus" /\ t_pc = "call"
  /\ t_result' = ExtractTitleBuild(t_h1, t_title, t_fallback)
  /\ t_pc' = "done"
  /\ UNCHANGED << t_prog, t_h1, t_title, t_fallback >>
  /\ UNCHANGED exceptTitle

\* crawler.py:154-161
TitleCrawler ==
  /\ t_prog = "crawler" /\ t_pc = "call"
  /\ t_result' = ExtractTitleCrawler(t_h1, t_title)
  /\ t_pc' = "done"
  /\ UNCHANGED << t_prog, t_h1, t_title, t_fallback >>
  /\ UNCHANGED exceptTitle

(***************************************************************************)
(* crawler.py combine_by_char_limit(records, max_chars)                    *)
(***************************************************************************)
\* the most records handed to combine_by_char_limit
MaxRecords == 3

\* the max_chars values: negative, none, below every pair, and three that
\* admit some pairs and triples of the texts below
CombLimits == { -1, 0, 3, 4, 6, 8 }

\* the texts of the records: one character, or three
CombTexts == { << "a" >>, << "a", "a", "a" >> }

\* ParagraphRecord (crawler.py:164-170); the title goes with the page
CombRecords ==
  { [ url |-> u, page_title |-> << "T", u >>, heading_path |-> << h >>,
      paragraph_index |-> 0, text |-> t ] :
      u \in { "u", "v" }, h \in { "A", "B" }, t \in CombTexts }

\* the records numbered in the order of the list
Numbered(recs) ==
  [ i \in 1..Len(recs) |-> [ recs[i] EXCEPT !.paragraph_index = i - 1 ] ]

\* "\n\n"
ParagraphSeparator == << "\n", "\n" >>

\* the texts of a sequence of records
TextsOf(recs) == [ i \in 1..Len(recs) |-> recs[i].text ]

\* the url alone compared
SameUrl(rec, last) == rec.url = last.url

\* same_context (crawler.py:310)
SameContext(rec, last) ==
  rec.url = last.url /\ rec.heading_path = last.heading_path

\* next_len (crawler.py:311)
NextLen(buf_len, rec) == buf_len + 2 + Len(rec.text)

\* flush() (crawler.py:294-302): what combined is after it
CombFlush(buffer, combined) ==
  IF buffer = << >> THEN combined
  ELSE Append(combined,
              [ url |-> buffer[1].url, page_title |-> buffer[1].page_title,
                heading_path |-> buffer[1].heading_path,
                paragraph_index |-> buffer[1].paragraph_index,
                text |-> JoinWith(TextsOf(buffer), ParagraphSeparator) ])

CombIdle ==
  /\ b_records = << >> /\ b_max = 0 /\ b_i = 0 /\ b_buffer = << >>
  /\ b_buf_len = 0 /\ b_combined = << >> /\ b_pc = "idle"

CombInit ==
  /\ b_records \in { Numbered(recs) : recs \in SeqsUpTo(CombRecords, MaxRecords) }
  /\ b_max \in CombLimits
  /\ b_i = 1
  /\ b_buffer = << >> /\ b_buf_len = 0 /\ b_combined = << >>
  /\ b_pc = "call"

\* crawler.py:288-289  if max_chars <= 0: return records
CombReturnInput ==
  /\ b_pc = "call" /\ b_max <= 0
  /\ b_combined' = b_records
  /\ b_pc' = "done"
  /\ UNCHANGED << b_records, b_max, b_i, b_buffer, b_buf_len >>
  /\ UNCHANGED exceptComb

\* crawler.py:290-292  the loop is entered
CombEnter ==
  /\ b_pc = "call" /\ b_max > 0
  /\ b_pc' = "loop"
  /\ UNCHANGED << b_records, b_max, b_i, b_buffer, b_buf_len, b_combined >>
  /\ UNCHANGED exceptComb

\* crawler.py:305-308  the buffer is empty: the record opens it
CombOpen ==
  /\ b_pc = "loop" /\ b_i <= Len(b_records)
  /\ b_buffer = << >>
  /\ b_buffer' = << b_records[b_i] >>
  /\ b_buf_len' = Len(b_records[b_i].text)
  /\ b_i' = b_i + 1
  /\ UNCHANGED << b_records, b_max, b_combined, b_pc >>
  /\ UNCHANGED exceptComb

\* crawler.py:310-314  same context and room left: the record joins the buffer
CombAppend ==
  /\ b_pc = "loop" /\ b_i <= Len(b_records)
  /\ b_buffer # << >>
  /\ SameContext(b_records[b_i], b_buffer[Len(b_buffer)])
  /\ NextLen(b_buf_len, b_records[b_i]) <= b_max
  /\ b_buffer' = Append(b_buffer, b_records[b_i])
  /\ b_buf_len' = NextLen(b_buf_len, b_records[b_i])
  /\ b_i' = b_i + 1
  /\ UNCHANGED << b_records, b_max, b_combined, b_pc >>
  /\ UNCHANGED exceptComb

\* crawler.py:315-318  otherwise the buffer is flushed and the record opens
\* the next one
CombFlushAndOpen ==
  /\ b_pc = "loop" /\ b_i <= Len(b_records)
  /\ b_buffer # << >>
  /\ ~(/\ SameContext(b_records[b_i], b_buffer[Len(b_buffer)])
       /\ NextLen(b_buf_len, b_records[b_i]) <= b_max)
  /\ b_combined' = CombFlush(b_buffer, b_combined)
  /\ b_buffer' = << b_records[b_i] >>
  /\ b_buf_len' = Len(b_records[b_i].text)
  /\ b_i' = b_i + 1
  /\ UNCHANGED << b_records, b_max, b_pc >>
  /\ UNCHANGED exceptComb

\* crawler.py:319-320  the records are used up: flush(); return combined
CombReturn ==
  /\ b_pc = "loop" /\ b_i > Len(b_records)
  /\ b_combined' = CombFlush(b_buffer, b_combined)
  /\ b_buffer' = << >>
  /\ b_buf_len' = 0
  /\ b_pc' = "done"
  /\ UNCHANGED << b_records, b_max, b_i >>
  /\ UNCHANGED exceptComb

(***************************************************************************)
(* Specifications                                                          *)
(***************************************************************************)
\* one crawl run against any site, with fetches that may fail
Init == CrawlInit /\ ScopeIdle /\ NormIdle /\ WordIdle /\ CharIdle /\ MdIdle /\ DomIdle
    /\ EncIdle /\ FetchIdle /\ RobotsIdle /\ RecIdle
    /\ DecIdle /\ TitleIdle /\ CombIdle

Next ==
  \/ CrawlSkipVisited \/ CrawlSkipOutOfScope \/ CrawlSkipRobots
  \/ CrawlDispatch \/ CrawlFetchFail \/ CrawlFetchOk
  \/ BuildSkipSeen \/ BuildDispatch \/ BuildFetchFail \/ BuildFetchOk
  \/ BuildExtractFail
  \/ CrawlExit

Spec == Init /\ [][Next]_vars

\* one crawl run against a fixed site on which every fetch and every
\* extraction succeeds and robots allows everything
SiteInit == CrawlInitSite /\ ScopeIdle /\ NormIdle /\ WordIdle /\ CharIdle /\ MdIdle /\ DomIdle
    /\ EncIdle /\ FetchIdle /\ RobotsIdle /\ RecIdle
    /\ DecIdle /\ TitleIdle /\ CombIdle

SiteNext ==
  \/ CrawlSkipVisited \/ CrawlSkipOutOfScope
  \/ CrawlDispatch \/ CrawlFetchOk
  \/ BuildSkipSeen \/ BuildDispatch \/ BuildFetchOk
  \/ CrawlExit

SiteSpec == SiteInit /\ [][SiteNext]_vars

\* one run of a record producer over a list of documents
RecSpecInit == RecInit /\ ScopeIdle /\ NormIdle /\ CrawlIdle /\ WordIdle /\ CharIdle
    /\ MdIdle /\ DomIdle /\ EncIdle /\ FetchIdle /\ RobotsIdle
    /\ DecIdle /\ TitleIdle /\ CombIdle

RecNext ==
  \/ RecWrapMarkdown \/ RecBuildFile
  \/ RecPageFetchFails \/ RecPageTooShort \/ RecPageChunked
  \/ RecReturn

RecSpec == RecSpecInit /\ [][RecNext]_vars

\* the decode stage of one attempt of fetch()
DecSpecInit == DecInit /\ ScopeIdle /\ NormIdle /\ CrawlIdle /\ WordIdle /\ CharIdle
    /\ MdIdle /\ DomIdle /\ EncIdle /\ FetchIdle /\ RobotsIdle /\ RecIdle
    /\ TitleIdle /\ CombIdle

DecNext == DecChoose \/ DecReturns \/ DecCaught \/ DecRaises \/ DecFallback

DecSpec == DecSpecInit /\ [][DecNext]_vars

\* extract_title, both versions, on every pair of elements
TitleSpecInit == TitleInit /\ ScopeIdle /\ NormIdle /\ CrawlIdle /\ WordIdle /\ CharIdle
                 /\ MdIdle /\ DomIdle /\ EncIdle /\ FetchIdle /\ RobotsIdle
                 /\ RecIdle /\ DecIdle /\ CombIdle

TitleNext == TitleBuild \/ TitleCrawler

TitleSpec == TitleSpecInit /\ [][TitleNext]_vars

\* combine_by_char_limit on every list of records and every limit
CombSpecInit == CombInit /\ ScopeIdle /\ NormIdle /\ CrawlIdle /\ WordIdle /\ CharIdle
                /\ MdIdle /\ DomIdle /\ EncIdle /\ FetchIdle /\ RobotsIdle
                /\ RecIdle /\ DecIdle /\ TitleIdle

CombNext ==
  \/ CombReturnInput \/ CombEnter \/ CombOpen \/ CombAppend
  \/ CombFlushAndOpen \/ CombReturn

CombSpec == CombSpecInit /\ [][CombNext]_vars

\* has_url_prefix on every (candidate, root) pair
ScopeSpecInit == ScopeInit /\ NormIdle /\ CrawlIdle /\ WordIdle /\ CharIdle /\ MdIdle /\ DomIdle
    /\ EncIdle /\ FetchIdle /\ RobotsIdle /\ RecIdle
    /\ DecIdle /\ TitleIdle /\ CombIdle

ScopeNext == ScopeRoot \/ ScopeCheck

ScopeSpec == ScopeSpecInit /\ [][ScopeNext]_vars

\* normalize_url applied twice
NormSpecInit == NormInit /\ ScopeIdle /\ CrawlIdle /\ WordIdle /\ CharIdle /\ MdIdle /\ DomIdle
    /\ EncIdle /\ FetchIdle /\ RobotsIdle /\ RecIdle
    /\ DecIdle /\ TitleIdle /\ CombIdle

NormNext == NormOnce \/ NormTwice

NormSpec == NormSpecInit /\ [][NormNext]_vars

\* one call of a word-window chunker; the call is sequential code, so a step
\* that can be taken is taken
WordSpecInit == WordInit /\ ScopeIdle /\ NormIdle /\ CrawlIdle /\ CharIdle /\ MdIdle /\ DomIdle
    /\ EncIdle /\ FetchIdle /\ RobotsIdle /\ RecIdle
    /\ DecIdle /\ TitleIdle /\ CombIdle

WordNext == WordSplit \/ WordTest \/ RagChunkBody \/ PembedChunkBody

WordSpec == WordSpecInit /\ [][WordNext]_vars /\ WF_vars(WordNext)

\* one call of the character-window chunker, sequential code as well
CharSpecInit == CharInit /\ ScopeIdle /\ NormIdle /\ CrawlIdle /\ WordIdle /\ MdIdle /\ DomIdle
    /\ EncIdle /\ FetchIdle /\ RobotsIdle /\ RecIdle
    /\ DecIdle /\ TitleIdle /\ CombIdle

CharNext == CharEntry \/ CharTest \/ CharBody \/ CharReturn

CharSpec == CharSpecInit /\ [][CharNext]_vars /\ WF_vars(CharNext)

\* one call of the paragraph chunker
MdSpecInit == MdInit /\ ScopeIdle /\ NormIdle /\ CrawlIdle /\ WordIdle /\ CharIdle /\ DomIdle
    /\ EncIdle /\ FetchIdle /\ RobotsIdle /\ RecIdle
    /\ DecIdle /\ TitleIdle /\ CombIdle

MdNext == MdSplit \/ MdFits \/ MdOverflow \/ MdFinish

MdSpec == MdSpecInit /\ [][MdNext]_vars

\* one call of extract_paragraphs
DomSpecInit ==
  DomInit /\ ScopeIdle /\ NormIdle /\ CrawlIdle /\ WordIdle /\ CharIdle /\ MdIdle
    /\ EncIdle /\ FetchIdle /\ RobotsIdle /\ RecIdle
    /\ DecIdle /\ TitleIdle /\ CombIdle

DomNext == DomFindHeadings \/ DomSection \/ DomReturn

DomSpec == DomSpecInit /\ [][DomNext]_vars

\* one call of choose_best_encoding
EncSpecInit ==
  /\ EncInit /\ ScopeIdle /\ NormIdle /\ CrawlIdle /\ WordIdle /\ CharIdle
  /\ MdIdle /\ DomIdle /\ FetchIdle /\ RobotsIdle /\ RecIdle
    /\ DecIdle /\ TitleIdle /\ CombIdle

EncNext == ChooseBom \/ ChooseMeta \/ ChooseUtf8 \/ ChooseFallback

EncSpec == EncSpecInit /\ [][EncNext]_vars

\* one call of fetch() or of session.get()
FetchSpecInit ==
  /\ FetchInit /\ ScopeIdle /\ NormIdle /\ CrawlIdle /\ WordIdle /\ CharIdle
  /\ MdIdle /\ DomIdle /\ EncIdle /\ RobotsIdle /\ RecIdle
    /\ DecIdle /\ TitleIdle /\ CombIdle

FetchNext ==
  \/ FetchAttemptReturns \/ FetchAttemptFails \/ FetchAttemptRaises
  \/ FetchGivesUp
  \/ SessionGetRetries \/ SessionGetReturns \/ SessionGetRaises

FetchSpec == FetchSpecInit /\ [][FetchNext]_vars

\* load_robots and the robots tests of one crawl() run
RobotsSpecInit ==
  /\ RobotsInit /\ ScopeIdle /\ NormIdle /\ CrawlIdle /\ WordIdle /\ CharIdle
  /\ MdIdle /\ DomIdle /\ EncIdle /\ FetchIdle /\ RecIdle
    /\ DecIdle /\ TitleIdle /\ CombIdle

RobotsNext ==
  \/ RobotsReadServed \/ RobotsReadHttpError \/ RobotsReadRaises
  \/ RobotsTest

RobotsSpec == RobotsSpecInit /\ [][RobotsNext]_vars

(***************************************************************************)
(* The crawl loops: what is claimed of them                                *)
(***************************************************************************)
\* C1: during one run of crawl(), whatever the links and the fetch outcomes,
\* no URL is handed to session.get more than once.
C1_NoUrlDispatchedTwice ==
  c_prog = "crawl" =>
    \A i, j \in 1..Len(c_dispatched) :
      i # j => c_dispatched[i] # c_dispatched[j]

\* the one href list a page of a fixed site serves
SiteHrefs(url) == CHOOSE hrefs \in Served(url) : TRUE

\* the URLs the anchors of page url lead to that lie in the crawl's scope
SiteTargets(url) ==
  IF c_prog = "crawl"
    THEN { n \in { NormalizeLink(url, SiteHrefs(url)[i]) : i \in 1..Len(SiteHrefs(url)) } :
             n # None /\ HasUrlPrefix(n, c_prefix) }
    ELSE { u \in { NormalizeUrl(SiteHrefs(url)[i], url) : i \in 1..Len(SiteHrefs(url)) } :
             IsDocUrl(u, c_prefix) }

\* the closure of a set of pages under the in-scope links of the site
RECURSIVE SiteClosure(_)
SiteClosure(S) ==
  IF UNION { SiteTargets(u) : u \in S } \subseteq S THEN S
  ELSE SiteClosure(S \cup UNION { SiteTargets(u) : u \in S })

\* the in-scope pages reachable from the start URL: crawl() admits the start
\* URL by the same scope test as every other URL, crawl_and_build() fetches
\* its start URL untested
SiteReachable ==
  IF c_prog = "crawl" /\ ~HasUrlPrefix(c_start, c_prefix) THEN {}
  ELSE SiteClosure({ c_start })

\* the pages produced are exactly the set S, each once
PagesAreExactly(S) ==
  /\ { c_pages[i] : i \in 1..Len(c_pages) } = S
  /\ Len(c_pages) = Cardinality(S)

\* C2: on a fixed finite site whose fetches all succeed, crawled with
\* max_pages above the number of reachable in-scope pages, the loop body runs
\* a bounded number of times (at most once for the start URL and once for each
\* anchor of the at most max_pages pages produced), and when the loop has
\* ended the queue is empty and every in-scope page
\* reachable from the start URL has been produced exactly once (so A -> B, C
\* and B -> A produces A, B, C once each).
C2_CrawlCoversSite ==
  /\ c_iter <= 1 + MaxLinks * Len(c_pages)
  /\ Len(c_pages) <= c_max
  /\ c_pc = "done" /\ c_max > Cardinality(SiteReachable)
       => /\ PagesAreExactly(SiteReachable)
          /\ c_queue = << >>

\* C2's case: the fixture A -> B, C; B -> A, crawled by crawl() to the end
C2_FixtureCrawled ==
  /\ c_prog = "crawl" /\ c_pc = "done"
  /\ c_web[UrlG] = { << << "x" >>, << "/", "g", "/", "y", "#", "f" >> >> }
  /\ c_web[UrlGX] = { << UrlG >> }
  /\ c_web[UrlGY] = { << >> }
  /\ c_pages = << UrlG, UrlGX, UrlGY >>
  /\ c_dispatched = << UrlG, UrlGX, UrlGY >>

\* C7: neither loop ever holds more pages than max_pages (crawl(): yielded
\* pages and visited set; crawl_and_build(): pages), and with max_pages = 0
\* nothing is fetched.
C7_PageCeiling ==
  /\ Len(c_pages) <= c_max
  /\ c_prog = "crawl" => Cardinality(c_visited) <= c_max
  /\ c_max = 0 => c_dispatched = << >>

\* C7's case: the ceiling, not the queue, ended a crawl
C7_StoppedAtCeiling ==
  /\ c_pc = "done" /\ c_max > 0
  /\ Len(c_pages) = c_max
  /\ c_queue # << >>

\* C8: a step of crawl() that hands a URL to the fetcher hands over the head
\* of the queue, which is then in scope, not visited and allowed by robots;
\* a dequeued URL failing one of the three is dropped with no fetch.
C8_DispatchOnlyAdmitted ==
  [][ c_prog = "crawl" /\ c_pc = "loop" /\ LoopCond =>
        IF /\ HasUrlPrefix(Head(c_queue), c_prefix)
           /\ Head(c_queue) \notin c_visited
           /\ IsAllowedByRobots(c_disallow, Head(c_queue))
          THEN /\ c_dispatched' = Append(c_dispatched, Head(c_queue))
               /\ c_cur' = Head(c_queue)
          ELSE /\ c_dispatched' = c_dispatched
               /\ c_queue' = Tail(c_queue)
               /\ c_pc' = "loop" ]_vars

\* C8's case: /g/y is in flight after /g/x was refused by robots
C8_DispatchedPastRefusal ==
  /\ c_prog = "crawl" /\ c_pc = "fetch"
  /\ c_disallow = { UrlGX }
  /\ c_cur = UrlGY
  /\ c_dispatched = << UrlG, UrlGY >>

(***************************************************************************)
(* The scope check: what is claimed of it                                  *)
(***************************************************************************)
\* a path made to end with "/"
SlashEnded(path) ==
  IF path # << >> /\ path[Len(path)] = "/" THEN path ELSE path \o << "/" >>

\* scheme and host of candidate and root are the same
SameOrigin == sc_cand.scheme = sc_root.scheme /\ sc_cand.host = sc_root.host

\* C9, as stated: has_url_prefix(candidate, _normalize_root_prefix(root)) is
\* true iff scheme and host are equal and the candidate's path starts with
\* the root's path made to end with "/".
C9_InScopeIffPathStartsWith ==
  sc_pc = "checked" =>
    (sc_ok <=> SameOrigin /\ StartsWith(sc_cand.path, SlashEnded(sc_root.path)))

\* C9, amended: the same, a candidate without a path counting as the path
\* "/" (http://h is in the scope of the root http://h/).
C9_InScopeIff ==
  sc_pc = "checked" =>
    (sc_ok <=> SameOrigin /\ StartsWith(OrSlash(sc_cand.path), SlashEnded(sc_root.path)))

\* C9's case: under the root /g, which gets its "/" appended, the candidate
\* /g-/ on the same host has been checked and refused
C9_SiblingRefused ==
  /\ sc_pc = "checked"
  /\ sc_root.path = << "/", "g" >>
  /\ sc_cand = [ scheme |-> "http", host |-> "h",
                 path |-> << "/", "g", "-", "/" >>, query |-> << >> ]
  /\ sc_ok = FALSE

(***************************************************************************)
(* Canonical URLs: what is claimed of them                                 *)
(***************************************************************************)
\* C10: normalising a normalised URL again, with the same base or with none,
\* gives the same URL.
C10_NormalizeIdempotent ==
  nu_pc = "twice" => nu_twice = nu_once

(***************************************************************************)
(* The word-window chunkers: what is claimed of them                       *)
(***************************************************************************)
\* C5: every call of chunk_text_by_words and of chunk_text returns, whatever
\* the text, the window size and the overlap, an overlap equal to the size
\* included.
C5_WordChunkersReturn == <>(w_pc = "done")

(***************************************************************************)
(* The character-window chunker: what is claimed of it                     *)
(***************************************************************************)
\* C6: in a call with chunk_size > 0, a round of the loop that is followed by
\* another leaves start strictly larger; the call returns; and an overlap
\* passed as chunk_size or more has been replaced by chunk_size // 4 when the
\* loop is entered.
C6_WindowAdvances ==
  /\ [][ k_pc = "body" /\ k_pc' = "test" => k_start' > k_start ]_vars
  /\ <>(k_pc = "done")
  /\ [](k_pc \in { "test", "body", "filter" } /\ k_given >= k_size
          => k_overlap = k_size \div 4)

\* C6's case: a call with an overlap above chunk_size, replaced by 1, has gone
\* round the loop more than once and returned
C6_CorrectedAndReturned ==
  /\ k_pc = "done"
  /\ k_given > k_size
  /\ k_overlap = 1
  /\ k_start > 0
  /\ Len(k_chunks) >= 2

(***************************************************************************)
(* The paragraph chunker: what is claimed of it                            *)
(***************************************************************************)
\* C3: every chunk chunk_markdown has emitted measures at most max_tokens,
\* unless it was made of exactly one paragraph that alone measures more.
C3_ChunkWithinBudget ==
  \A i \in 1..Len(m_chunks) :
    \/ TokenizeLen(m_enc, m_chunks[i]) <= m_max
    \/ /\ Len(m_parts[i]) = 1
       /\ TokenizeLen(m_enc, m_parts[i][1]) > m_max

(***************************************************************************)
(* Section extraction: what is claimed of it                               *)
(***************************************************************************)
\* the h2 a node comes after: the last one before it in the page, 0 if none
HeadingBefore(doc, j) ==
  IF \E h \in 1..(j - 1) : doc[h].tag = "h2"
    THEN CHOOSE h \in 1..(j - 1) :
           doc[h].tag = "h2" /\ \A k \in (h + 1)..(j - 1) : doc[k].tag # "h2"
    ELSE 0

\* C4: when extract_paragraphs has returned, every p with text that comes
\* after an h2 has a record whose heading_path is the text of the last h2
\* before it, and no node has records under two different headings (so
\* <h2>Install</h2><p>Step one</p><h2>Next</h2><p>Step two</p> gives "Step
\* one" under ["Install"] and "Step two" under ["Next"]).
C4_SectionTagging ==
  d_pc = "done" =>
    /\ \A j \in 1..Len(d_doc) :
         /\ d_doc[j].tag = "p" /\ CleanText(d_doc[j].text) # << >>
         /\ HeadingBefore(d_doc, j) # 0
         => \E r \in 1..Len(d_records) :
              /\ d_records[r].text = CleanText(d_doc[j].text)
              /\ d_records[r].heading_path
                   = << CleanText(d_doc[HeadingBefore(d_doc, j)].text) >>
    /\ \A r1, r2 \in 1..Len(d_records) :
         d_records[r1].node = d_records[r2].node
           => d_records[r1].heading = d_records[r2].heading

(***************************************************************************)
(* Encoding resolution: what is claimed of it                              *)
(***************************************************************************)
\* how many bytes come before item i of the content
RECURSIVE BytesBefore(_, _)
BytesBefore(bytes, i) ==
  IF i <= 1 THEN 0 ELSE bytes[i - 1].size + BytesBefore(bytes, i - 1)

\* the charsets of the <meta> tags that end within the first HeadBytes bytes
MetaWithinHead ==
  { e_bytes[i].name : i \in { j \in 1..Len(e_bytes) :
      /\ e_bytes[j].kind \in { "meta-charset", "meta-http-equiv" }
      /\ BytesBefore(e_bytes, j) + e_bytes[j].size <= HeadBytes } }

\* the content is well-formed UTF-8: no byte that UTF-8 never uses, every
\* lead byte followed by its continuation bytes, and no continuation byte
\* anywhere else
IsLead(i, leads) ==
  i \in 1..Len(e_bytes) /\ e_bytes[i].kind = "byte" /\ e_bytes[i].name \in leads

WellFormedUtf8 ==
  \A i \in 1..Len(e_bytes) :
    /\ e_bytes[i].kind = "byte"
         => e_bytes[i].name \in Lead2 \cup Lead3 \cup ContinuationBytes
    /\ IsLead(i, Lead2) => IsLead(i + 1, ContinuationBytes)
    /\ IsLead(i, Lead3)
         => IsLead(i + 1, ContinuationBytes) /\ IsLead(i + 2, ContinuationBytes)
    /\ IsLead(i, ContinuationBytes)
         => \/ IsLead(i - 1, Lead2 \cup Lead3)
            \/ IsLead(i - 2, Lead3)

\* the Content-Type header or the response encoding says ISO-8859-1
TransportDeclaresLatin1 ==
  \/ e_resp = "ISO-8859-1"
  \/ \E i \in 1..Len(e_header) :
       e_header[i].part = "charset" /\ e_header[i].name = "ISO-8859-1"

\* the tags that name UTF-8: plain, and with the byte-order mark skipped
Utf8Tags == { "utf-8", "utf-8-sig" }

\* C11, as stated: whenever the content is well-formed UTF-8 and the
\* transport declares ISO-8859-1, choose_best_encoding returns UTF-8.
C11_Utf8BytesResolveToUtf8 ==
  e_pc = "done" /\ WellFormedUtf8 /\ TransportDeclaresLatin1
    => e_result \in Utf8Tags

\* C11, amended: whenever the content is well-formed UTF-8, holds no <meta>
\* charset within its first 8192 bytes and the transport declares
\* ISO-8859-1, choose_best_encoding returns UTF-8.
C11_Utf8BytesWithoutMetaResolveToUtf8 ==
  e_pc = "done" /\ WellFormedUtf8 /\ TransportDeclaresLatin1
                /\ MetaWithinHead = {}
    => e_result \in Utf8Tags

\* C11 happens: a two-byte UTF-8 character, a header and a response encoding
\* that say ISO-8859-1, a detector that says windows-1256, and utf-8 returned
C11_Latin1Overridden ==
  /\ e_pc = "done"
  /\ e_bytes = << Ascii(1), Byte("C3"), Byte("A9") >>
  /\ e_header = << MediaType, CharsetParam("ISO-8859-1", FALSE) >>
  /\ e_resp = "ISO-8859-1" /\ e_apparent = "windows-1256"
  /\ e_result = "utf-8"

\* the first of the tags that is neither None nor ""
FirstNonEmpty(tags) ==
  tags[CHOOSE i \in 1..Len(tags) :
         /\ tags[i] \notin { NoneTag, "" }
         /\ \A j \in 1..(i - 1) : tags[j] \in { NoneTag, "" }]

TerminalStatus(answer) ==
  /\ ~answer.raised /\ answer.status >= 400
  /\ answer.status \notin { 429, 500, 502, 503, 504 }

\* C14: in fetch() and in session.get() no attempt is made for a URL after
\* a response with a 4xx/5xx status outside {429, 500, 502, 503, 504}: such
\* a response is always the last entry of the attempts made.
C14_OnlyRetryableRetried ==
  \A i \in 1..(Len(f_log) - 1) : ~TerminalStatus(f_log[i])

(***************************************************************************)
(* The robots policy: what is claimed of it                                *)
(***************************************************************************)
\* C15: when the request for robots.txt fails, by no answer from the host or
\* by an error response, every URL the run tests is allowed; and
\* load_robots is called at most once in a run.
C15_RobotsFailureAllowsAll ==
  /\ r_loads <= 1
  /\ r_answer.kind # "served"
       => \A i \in 1..Len(r_tests) : r_tests[i].allowed

(***************************************************************************)
(* The paragraph chunker: overlap, completeness and emptiness              *)
(***************************************************************************)
\* whether next begins with a non-empty tail of prev
BeginsWithTailOf(next, prev) ==
  \E k \in 1..Min(Len(prev), Len(next)) :
    SubSeq(prev, Len(prev) - k + 1, Len(prev)) = SubSeq(next, 1, k)

\* C16: when chunk_markdown is called with overlap_tokens > 0 and has
\* returned, every chunk after the first begins with a tail of the chunk
\* before it (empty chunks, which have no tail and no beginning, set aside).
C16_ChunksShareOverlap ==
  m_pc = "done" /\ m_ovl > 0 =>
    \A i \in 2..Len(m_chunks) :
      m_chunks[i - 1] # << >> /\ m_chunks[i] # << >>
        => BeginsWithTailOf(m_chunks[i], m_chunks[i - 1])

\* a sequence of sequences laid end to end
RECURSIVE Flatten(_)
Flatten(seqs) == IF seqs = << >> THEN << >> ELSE Head(seqs) \o Flatten(Tail(seqs))

\* C17: when chunk_markdown has returned, the paragraphs its chunks were
\* flushed with, chunk after chunk, are the paragraphs of the input, each
\* once and in order; every chunk ends with its paragraphs, whole and joined
\* by blank lines, up to the trimming of the chunk's ends; and a paragraph
\* whose own measure exceeds max_tokens is the only paragraph of its chunk.
C17_ParagraphsKeptWhole ==
  m_pc = "done" =>
    /\ Len(m_parts) = Len(m_chunks)
    /\ Flatten(m_parts) = SplitParas(m_text)
    /\ \A k \in 1..Len(m_chunks) :
         /\ EndsWith(m_chunks[k], Strip(JoinWith(m_parts[k], ParaBreak)))
         /\ \A j \in 1..Len(m_parts[k]) :
              TokenizeLen(m_enc, m_parts[k][j]) > m_max => Len(m_parts[k]) = 1

\* C17 happens: a paragraph of six tokens between two of one token, under a
\* budget of two, becomes the second of three chunks, unsplit
C17_OversizedEmittedAlone ==
  /\ m_pc = "done" /\ m_enc /\ m_max = 2 /\ m_ovl = 0
  /\ m_paras = << << "a" >>, << "a", "a", "a", "a", "a", "a" >>, << "b" >> >>
  /\ m_chunks = m_paras

\* C18: when chunk_markdown has returned, no chunk is empty after trimming.
C18_NoEmptyChunk ==
  m_pc = "done" => \A i \in 1..Len(m_chunks) : Strip(m_chunks[i]) # << >>


\* the records of document d, in the order they were emitted
RecordsOfDoc(d) ==
  LET OfDoc(r) == r.doc = d
  IN SelectSeq(x_records, OfDoc)

\* the base the specification fixes for each producer
ClaimedBase(prog) == IF prog = "chunk_markdown" THEN 1 ELSE 0

\* the number of chunks document d produces for the producer
ChunksProduced(prog, doc) ==
  IF prog = "build_records" /\ doc.chunks = << >> THEN 1 ELSE Len(doc.chunks)

\* C19: for every document a producer has gone through, the document's
\* records are as many as the chunks it produced (N), and the k-th record
\* emitted for it has chunk_index base + k - 1 and the text of the k-th chunk,
\* so the values are exactly base..base+N-1 in emission order; base is 1 for
\* chunk_markdown and 0 for build_records and create_chunks_from_pages.
C19_ChunkIndexContiguous ==
  \A d \in 1..x_idx :
    LET rs == RecordsOfDoc(d)
        n == ChunksProduced(x_prog, x_docs[d])
    IN /\ Len(rs) = n
       /\ \A k \in 1..n :
            /\ rs[k].chunk_index = ClaimedBase(x_prog) + k - 1
            /\ x_docs[d].chunks # << >> => rs[k].text = x_docs[d].chunks[k]

\* C19 happens: create_chunks_from_pages has returned after a page of two
\* chunks, a page that was skipped and a page of three chunks, so the run-wide
\* counter cid stands at 5 while the last page's indexes start again at 0
C19_SecondPageRestartsAtBase ==
  /\ x_pc = "done" /\ x_prog = "create_chunks_from_pages"
  /\ Len(x_docs) = 3 /\ x_cid = 5
  /\ Len(x_docs[1].chunks) = 2 /\ x_docs[2].outcome = "too short"
  /\ Len(x_records) = 5
  /\ x_records[3].chunk_index = 0 /\ x_records[3].id = << 0, 2 >>


\* two fetches were entered with no sleep between them
FetchesWithoutDelay(trace) ==
  \E i \in 1..(Len(trace) - 1) : trace[i] = "get" /\ trace[i + 1] = "get"

\* C20: in crawl() called with delay > 0 and in crawl_and_build, a sleep lies
\* between any two successive fetches entered, whatever came of the earlier
\* one, and a fetch is entered only when none is in flight.
C20_DelayBetweenDispatches ==
  (c_prog = "crawl_and_build" \/ (c_prog = "crawl" /\ c_delay > 0)) =>
    /\ ~FetchesWithoutDelay(c_trace)
    /\ c_pc = "fetch" <=> c_cur # None

(***************************************************************************)
(* Section extraction: content before the first heading, and the order of  *)
(* the records                                                             *)
(***************************************************************************)
\* the h2 elements of a page
HeadingsOf(doc) == { j \in 1..Len(doc) : doc[j].tag = "h2" }

\* C21: every record extract_paragraphs emits comes from a node that follows
\* an h2 of the page in document order, the h2 whose section it was emitted
\* for, so nothing that lies before the first h2 is emitted; and a page
\* without any h2 yields no records.
C21_NothingBeforeFirstHeading ==
  /\ \A r \in 1..Len(d_records) :
       /\ d_records[r].heading \in HeadingsOf(d_doc)
       /\ d_records[r].heading < d_records[r].node
       /\ \A h \in HeadingsOf(d_doc) : \E g \in HeadingsOf(d_doc) :
            g <= h /\ g < d_records[r].node
  /\ d_pc = "done" /\ HeadingsOf(d_doc) = {} => d_records = << >>

\* C21 happens: a page with a string that is not blank before its first h2
\* and one after it; the call has returned with a record of the second alone
C21_LeadingTextDropped ==
  /\ d_pc = "done"
  /\ Len(d_doc) = 3
  /\ d_doc[1].tag = "#text" /\ CleanText(d_doc[1].text) # << >>
  /\ d_doc[2].tag = "h2" /\ d_doc[2].parent = 0
  /\ d_doc[3].tag = "#text" /\ d_doc[3].parent = 0
  /\ Len(d_records) = 1 /\ d_records[1].node = 3

\* C22: the paragraph_index values of the records of one page are 0, 1, 2,
\* ... in the order of emission, and follow document order: of two records,
\* the one whose block comes earlier in the page never has the larger index.
C22_IndexFollowsDocumentOrder ==
  /\ \A r \in 1..Len(d_records) : d_records[r].paragraph_index = r - 1
  /\ \A r1, r2 \in 1..Len(d_records) :
       d_records[r1].node < d_records[r2].node
         => d_records[r1].paragraph_index <= d_records[r2].paragraph_index

(***************************************************************************)
(* The decode stage of fetch(): what is claimed of it                      *)
(***************************************************************************)
\* C23: whatever the bytes of the response and whatever encoding name was
\* declared or detected, the decode stage of fetch() never ends with an
\* exception: when it ends it has returned a text, which is not empty as
\* the response body is not.
C23_DecodingTotal ==
  g_pc \in { "returned", "raised" } => g_pc = "returned" /\ g_text # << >>

(***************************************************************************)
(* The crawl loops: failed fetches, and the order of the traversal         *)
(***************************************************************************)
\* the URLs whose fetch has failed so far
FailedUrls == { c_failed[i] : i \in 1..Len(c_failed) }

\* C24: a failed fetch is not fatal. The step in which a fetch fails adds
\* no page and no link to the queue and hands control back to the loop; and
\* no URL whose fetch has failed is handed to the fetcher again.
C24_FailedFetchSkippedForGood ==
  [][ /\ c_failed' # c_failed
        => /\ c_pages' = c_pages
           /\ c_queue' = c_queue
           /\ c_pc' = "loop"
      /\ c_dispatched' # c_dispatched
        => c_dispatched'[Len(c_dispatched')] \notin FailedUrls ]_vars

\* the position of the first occurrence of url in the sequence s, which
\* holds it
FirstAt(s, url) == CHOOSE i \in 1..Len(s) :
                     /\ s[i] = url
                     /\ \A j \in 1..(i - 1) : s[j] # url

\* C25: the traversal is first in, first out, from the start URL on: every
\* URL handed to the fetcher was put on the queue before, the first of them
\* is the start URL, and of two URLs that are fetched the one that was first
\* put on the queue earlier is first fetched earlier.
C25_DispatchedInOrderOfFirstEnqueue ==
  /\ c_prog # "none" => c_enqueued[1] = c_start
  /\ \A i \in 1..Len(c_dispatched) :
       \E k \in 1..Len(c_enqueued) : c_enqueued[k] = c_dispatched[i]
  /\ \A i, j \in 1..Len(c_dispatched) :
       FirstAt(c_enqueued, c_dispatched[i]) < FirstAt(c_enqueued, c_dispatched[j])
         => FirstAt(c_dispatched, c_dispatched[i]) < FirstAt(c_dispatched, c_dispatched[j])

\* C25 happens: the start page put /g/x and then /g/y on the queue, a later
\* page put one of them on it again, and the three pages were fetched in
\* the order in which they were first queued
C25_ThreePagesInQueueOrder ==
  /\ Len(c_enqueued) > 3
  /\ SubSeq(c_enqueued, 1, 3) = << UrlG, UrlGX, UrlGY >>
  /\ c_dispatched = << UrlG, UrlGX, UrlGY >>

(***************************************************************************)
(* Title resolution: what is claimed of it                                 *)
(***************************************************************************)
\* the letters of a text, its blanks left out
Letters(text) == SelectSeq(text, LAMBDA c : c \notin Blank)

\* the letters of all the strings of an element
ElementLetters(el) == Letters(GetText(el, << >>, FALSE))

\* C26: extract_title returns, in both files, the text of the h1 when the
\* h1 has text, whatever the title element holds; else the text of the
\* title element when it has text; else the caller's default; else the
\* empty string. It always returns a text.
C26_TitleFallbackChain ==
  t_pc = "done" =>
    /\ t_result # None
    /\ IF t_h1.found /\ ElementLetters(t_h1) # << >>
       THEN Letters(t_result) = ElementLetters(t_h1)
       ELSE IF t_title.found /\ ElementLetters(t_title) # << >>
       THEN Letters(t_result) = ElementLetters(t_title)
       ELSE IF t_fallback # None THEN t_result = t_fallback
       ELSE t_result = << >>

(***************************************************************************)
(* Scope: the start URL against its own root prefix                        *)
(***************************************************************************)
\* C27: the start URL of crawl() lies inside the root prefix computed from
\* it: has_url_prefix(start_url, _normalize_root_prefix(start_url)) is true
\* for every http start URL, whether or not its path ends with "/".
C27_StartUrlInOwnScope ==
  (sc_pc = "checked" /\ FormatUrl(sc_cand) = FormatUrl(sc_root)) => sc_ok

(***************************************************************************)
(* combine_by_char_limit: what is claimed of it                            *)
(***************************************************************************)
\* the records lo..hi of the input are one output record: they share url
\* and heading_path, the output has the fields of the first and the texts
\* joined by "\n\n", and it is within the limit unless it is one record
IsRunOf(out, lo, hi) ==
  /\ lo <= hi
  /\ \A i \in lo..hi :
       /\ b_records[i].url = b_records[lo].url
       /\ b_records[i].heading_path = b_records[lo].heading_path
  /\ out = [ b_records[lo] EXCEPT
               !.text = JoinWith(TextsOf(SubSeq(b_records, lo, hi)),
                                 ParagraphSeparator) ]
  /\ (Len(out.text) <= b_max \/ lo = hi)

\* C28: for max_chars > 0 the output of combine_by_char_limit cuts the input,
\* in order, into runs of consecutive records of one url and heading_path,
\* one output record per run with the texts of the run joined by "\n\n";
\* every input record is in exactly one run, and an output is longer than
\* max_chars only when it is a single record. For max_chars <= 0 the output
\* is the input.
C28_CombinedIsPartitionIntoRuns ==
  b_pc = "done" =>
    IF b_max <= 0 THEN b_combined = b_records
    ELSE /\ (b_combined = << >>) <=> (b_records = << >>)
         /\ \E start \in [ 1..Len(b_combined) -> 1..Len(b_records) ] :
              \A j \in 1..Len(b_combined) :
                /\ j = 1 => start[j] = 1
                /\ IsRunOf(b_combined[j], start[j],
                           IF j = Len(b_combined) THEN Len(b_records)
                           ELSE start[j + 1] - 1)

\* C28 happens: three records, the first two of one context and short
\* enough to be joined, the third of the same page under another heading;
\* the call has returned two records
C28_TwoJoinedOneApart ==
  /\ b_pc = "done" /\ b_max > 0
  /\ Len(b_records) = 3 /\ Len(b_combined) = 2
  /\ b_records[3].url = b_records[2].url
  /\ b_records[3].heading_path # b_records[2].heading_path
  /\ b_combined[1].text = << "a", "\n", "\n", "a" >>

=============================================================================
